---- MODULE Spec2Model ----
(***************************************************************************)
(* A model of the LangGraph / LangChain programs of the repository:         *)
(*   - the retrieval / grading / rewrite loop of src/index.js (the file    *)
(*     holds two versions of the graph, lines 1-290 and lines 292-589);    *)
(*   - the human-in-the-loop e-mail triage graph of src/email-workflow.js  *)
(*     and its inline counterpart src/email-workflow-no-graph.js;          *)
(*   - the deep agent that delegates to sub-agents, src/unnamed/part_002,  *)
(*     and the supervisor of src/unnamed/part_001 with the same task tool. *)
(* The language model, the retriever and the human reviewer are            *)
(* nondeterministic inputs drawn from small sets.                          *)
(***************************************************************************)
EXTENDS Integers, Sequences, FiniteSets, TLC

VARIABLES
    \* ---- retrieval graph (src/index.js) ----
    ragVariant,   \* 1: lines 1-290 (checkDocumentRelevance), 2: lines 292-589 (checkRelevance)
    messages,     \* the messages channel of GraphState
    ragNext,      \* the cursor: the node to run next, "__start__" or "__end__"
    ragStatus,    \* "running" | "completed" | "failed"
    ragError,     \* the error a failed run threw, "none" otherwise
    ragTrace,     \* the nodes executed so far, in order
    score,        \* the message the grading model produced last
    agentInput,   \* the history the agent model was given last
    \* ---- triage graph (src/email-workflow.js) ----
    values,       \* thread -> channel values of EmailStateAnnotation
    next,         \* thread -> set of nodes of the current superstep
    done,         \* thread -> nodes of the current superstep that already ran
    writes,       \* thread -> updates buffered by the nodes that already ran
    goto,         \* thread -> targets named by the Command of a node that already ran
    status,       \* thread -> "idle" | "running" | "interrupted" | "completed"
    memory,       \* the MemorySaver: thread -> newest checkpoint
    mainPc,       \* thread -> position of the caller (main) of that thread
    trace,        \* thread -> the nodes entered so far, in order
    reviewLog,    \* thread -> times line 96 of humanReview ran
    resumed,      \* thread -> the resume values supplied so far, in order
    payload,      \* thread -> the interrupt payload handed to the caller, if any
    \* ---- deep agent with sub-agents (src/unnamed/part_002, src/unnamed/part_001) ----
    virtualFileSystem,  \* the module-level file table: its entries in insertion order
    agMessages,   \* the messages channel of the supervising agent's run
    agStatus,     \* "running" | "completed" | "failed"
    agError,      \* the error a failed supervising run threw, "none" otherwise
    tasks,        \* the tool calls of the supervisor's last message while its tools step runs
    \* ---- task simulation (src/experiments/todo.js) ----
    todoTasks,      \* the argument of the call: the task list
    taskQueue,      \* the tasks not started yet, in their order
    completedTasks, \* the ids of the tasks that completed
    task,           \* the task in progress
    todoPc,         \* "idle" | "await" (in the setTimeout of a task) | "returned"
    console,        \* the lines logged so far, in order
    \* ---- checkpoint replay (GraphState of src/index.js, EmailStateAnnotation and
    \*      MemorySaver of src/email-workflow.js) ----
    direct,       \* the channel values of the run the updates are applied to directly
    saved,        \* a MemorySaver: thread -> checkpoint
    updates,      \* the node updates applied since the checkpoint, in order
    replayed,     \* the channel values of the run replayed from the checkpoint
    replayPc,     \* "idle" | "applying" | "replayed"
    \* ---- task server (src/unnamed/part_004) ----
    tasksFile,    \* public/tasks.json: whether it exists, and the task list it holds
    generations,  \* the /generate-tasks requests that wrote the file so far
    req           \* request -> the locals and the response of one /implement-task request

ragVars == <<ragVariant, messages, ragNext, ragStatus, ragError, ragTrace, score, agentInput>>
triVars == <<values, next, done, writes, goto, status, memory, mainPc, trace,
             reviewLog, resumed, payload>>
agVars == <<virtualFileSystem, agMessages, agStatus, agError, tasks>>
todoVars == <<todoTasks, taskQueue, completedTasks, task, todoPc, console>>
replayVars == <<direct, saved, updates, replayed, replayPc>>
implVars == <<tasksFile, generations, req>>
vars == <<ragVars, triVars, agVars, todoVars, replayVars, implVars>>

(***************************************************************************)
(* Bounds of the model.                                                    *)
(***************************************************************************)
MaxGrades == 3      \* grading attempts of one retrieval run
MaxCalls == 2       \* tool calls one agent message may carry
MaxTools == 2       \* tool calls one supervising run may request
MaxSearches == 2    \* searches one sub-agent run may make
MaxHistory == 3     \* entries of a history handed to a node function on its own,
                    \* updates of a replayed sequence
MaxRequests == 2    \* /implement-task requests the server receives
MaxGenerations == 1 \* /generate-tasks requests that write the task file
MaxTasks == 2       \* tasks of a list given to the task simulation

(***************************************************************************)
(* src/constants.js                                                        *)
(***************************************************************************)
NODE_AGENT == "agent"
NODE_RETRIEVE == "retrieve"
NODE_RELEVANCE == "gradeRelevance"
NODE_TRANSFORM == "transformQuery"
NODE_GENERATE == "generate"
TOOL_RETRIEVER == "retrieve_blog_posts"
TOOL_GRADE == "give_relevance_score"
DECISION_RELEVANT == "yes"
DECISION_NOT_RELEVANT == "no"
START == "__start__"
END == "__end__"

(***************************************************************************)
(* Messages. content is a record of one shape so that any two contents     *)
(* compare: k names what the text is, i and j what it was made from.       *)
(***************************************************************************)
Content(k, i, j) == [k |-> k, i |-> i, j |-> j]
HumanMessage(c) == [type |-> "human", tool_calls |-> <<>>, content |-> c]
AIMessage(calls, c) == [type |-> "ai", tool_calls |-> calls, content |-> c]
ToolMessage(c) == [type |-> "tool", tool_calls |-> <<>>, content |-> c]
ToolCall(name, args) == [name |-> name, args |-> args]

Queries == {1, 2}                       \* queries the agent model may ask for
Scores == {"yes", "no", "maybe"}        \* binaryScore is z.string(): any text
Last(s) == s[Len(s)]

\* The question of the run (index.js:267-271).
inputs == <<HumanMessage(Content("question", 0, 0))>>

\* Answers the agent model may give: zero to MaxCalls retriever calls.
AgentResponses ==
    { AIMessage(calls, Content("agent", Len(calls), 0)) :
        calls \in UNION { [1..n -> {ToolCall(TOOL_RETRIEVER, q) : q \in Queries}] : n \in 0..MaxCalls } }

\* Answers the grading model may give: a give_relevance_score call, or none.
GradeResponses(question, context) ==
    { AIMessage(<<ToolCall(TOOL_GRADE, s)>>, Content("score", context.i, 0)) : s \in Scores }
    \cup { AIMessage(<<>>, Content("score", context.i, 0)) }

\* A reducer that keeps only what the step returned.
GraphStateReducerReplace(x, y) == y

\* GraphState: the reducer of messages (index.js:221-226).
GraphStateReducer(x, y) == x \o y

\* callAgent without the filter.
filteredMessagesNone(ms) == ms

\* callAgent / agent: the history the agent model is given.
RECURSIVE filteredMessages(_)
filteredMessages(ms) ==
    IF ms = <<>> THEN <<>>
    ELSE LET m == Head(ms)
             keep == IF m.type = "ai" /\ Len(m.tool_calls) > 0
                     THEN m.tool_calls[1].name # TOOL_GRADE
                     ELSE TRUE
         IN (IF keep THEN <<m>> ELSE <<>>) \o filteredMessages(Tail(ms))

\* decideToRetrieveDocuments that asks for retrieval whatever the last message is.
decideToRetrieveAlways(ms) == NODE_RETRIEVE

\* decideToRetrieveDocuments / shouldRetrieve.
decideToRetrieveDocuments(ms) ==
    LET lastMessage == Last(ms)
    IN IF lastMessage.type = "ai" /\ Len(lastMessage.tool_calls) > 0
       THEN NODE_RETRIEVE
       ELSE END

\* checkDocumentRelevance (first version): the raw binaryScore, or a throw.
checkDocumentRelevance(ms) ==
    LET lastMessage == Last(ms)
    IN IF lastMessage.type # "ai" THEN [throws |-> TRUE, value |-> "MissingToolCall"]
       ELSE IF Len(lastMessage.tool_calls) = 0 THEN [throws |-> TRUE, value |-> "MissingToolCall"]
       ELSE [throws |-> FALSE, value |-> lastMessage.tool_calls[1].args]

\* checkRelevance that takes a message without tool call for a 'no'.
checkRelevanceNoThrow(ms) ==
    LET lastMessage == Last(ms)
    IN IF lastMessage.type = "ai" /\ Len(lastMessage.tool_calls) > 0
          /\ lastMessage.tool_calls[1].args = "yes"
       THEN [throws |-> FALSE, value |-> "yes"]
       ELSE [throws |-> FALSE, value |-> "no"]

\* checkRelevance (second version): "yes" or "no", or a throw.
checkRelevance(ms) ==
    LET lastMessage == Last(ms)
    IN IF lastMessage.type # "ai" THEN [throws |-> TRUE, value |-> "MissingToolCall"]
       ELSE IF Len(lastMessage.tool_calls) = 0 THEN [throws |-> TRUE, value |-> "MissingToolCall"]
       ELSE IF lastMessage.tool_calls[1].args = "yes" THEN [throws |-> FALSE, value |-> "yes"]
       ELSE [throws |-> FALSE, value |-> "no"]

\* relevanceEnds with the two successors exchanged.
relevanceEndsSwapped ==
    [d \in {DECISION_RELEVANT, DECISION_NOT_RELEVANT} |->
        IF d = DECISION_RELEVANT THEN NODE_TRANSFORM ELSE NODE_GENERATE]

\* The decision-to-node mapping of the conditional edge out of the grading node.
relevanceEnds ==
    [d \in {DECISION_RELEVANT, DECISION_NOT_RELEVANT} |->
        IF d = DECISION_RELEVANT THEN NODE_GENERATE ELSE NODE_TRANSFORM]

\* relevanceBranch that sends a decision without an entry to transformQuery.
relevanceBranchDefault(variant, ms) ==
    LET r == IF variant = 1 THEN checkDocumentRelevance(ms) ELSE checkRelevance(ms)
    IN IF r.throws THEN [failed |-> TRUE, to |-> r.value]
       ELSE IF r.value = DECISION_RELEVANT THEN [failed |-> FALSE, to |-> NODE_GENERATE]
       ELSE [failed |-> FALSE, to |-> NODE_TRANSFORM]

\* The conditional edge out of the grading node: router, then mapping; a decision
\* without an entry makes the engine throw.
relevanceBranch(variant, ms) ==
    LET r == IF variant = 1 THEN checkDocumentRelevance(ms) ELSE checkRelevance(ms)
    IN IF r.throws THEN [failed |-> TRUE, to |-> r.value]
       ELSE IF r.value \in DOMAIN relevanceEnds
            THEN [failed |-> FALSE, to |-> relevanceEnds[r.value]]
            ELSE [failed |-> TRUE, to |-> "UnmappedDecision"]

\* The grading attempts a history holds.
RECURSIVE gradeCount(_)
gradeCount(ms) ==
    IF ms = <<>> THEN 0
    ELSE (IF Head(ms).type = "ai" /\ Len(Head(ms).tool_calls) > 0
             /\ Head(ms).tool_calls[1].name = TOOL_GRADE THEN 1 ELSE 0)
         + gradeCount(Tail(ms))

\* generate with the oldest ToolMessage of the history, 0 when there is none.
firstToolMessage(ms) ==
    IF \A k \in 1..Len(ms) : ms[k].type # "tool" THEN 0
    ELSE CHOOSE k \in 1..Len(ms) :
            ms[k].type = "tool" /\ \A n \in 1..(k - 1) : ms[n].type # "tool"

\* generate: the most recent ToolMessage of the history, 0 when there is none.
RECURSIVE lastToolMessage(_)
lastToolMessage(ms) ==
    IF ms = <<>> THEN 0
    ELSE IF Last(ms).type = "tool" THEN Len(ms)
    ELSE lastToolMessage(SubSeq(ms, 1, Len(ms) - 1))

(***************************************************************************)
(* The retrieval graph, one action per node; the edge out of the node is   *)
(* part of the node's step.                                                *)
(***************************************************************************)
RagInit ==
    /\ ragVariant \in {1, 2}
    /\ messages = inputs
    /\ ragNext = START
    /\ ragStatus = "running"
    /\ ragError = "none"
    /\ ragTrace = <<>>
    /\ score = AIMessage(<<>>, Content("none", 0, 0))
    /\ agentInput = <<>>

\* workflow.addEdge("__start__", NODE_AGENT)
RagStart ==
    /\ ragStatus = "running" /\ ragNext = START
    /\ ragNext' = NODE_AGENT
    /\ UNCHANGED <<ragVariant, messages, ragStatus, ragError, ragTrace, score, agentInput>>
    /\ UNCHANGED <<triVars, agVars, todoVars, replayVars, implVars>>

RagFinish(to) ==
    /\ ragNext' = to
    /\ ragStatus' = IF to = END THEN "completed" ELSE "running"
    /\ ragError' = "none"

\* callAgent, then decideToRetrieveDocuments.
callAgent ==
    /\ ragStatus = "running" /\ ragNext = NODE_AGENT
    /\ gradeCount(messages) < MaxGrades
    /\ \E response \in AgentResponses :
         LET ms == GraphStateReducer(messages, <<response>>)
         IN /\ messages' = ms
            /\ RagFinish(decideToRetrieveDocuments(ms))
    /\ agentInput' = filteredMessages(messages)
    /\ ragTrace' = Append(ragTrace, NODE_AGENT)
    /\ UNCHANGED <<ragVariant, score>>
    /\ UNCHANGED <<triVars, agVars, todoVars, replayVars, implVars>>

\* toolNode that appends no ToolMessage.
toolNodeSilent ==
    /\ ragStatus = "running" /\ ragNext = NODE_RETRIEVE
    /\ RagFinish(NODE_RELEVANCE)
    /\ ragTrace' = Append(ragTrace, NODE_RETRIEVE)
    /\ UNCHANGED <<ragVariant, score, agentInput, messages>>
    /\ UNCHANGED <<triVars, agVars, todoVars, replayVars, implVars>>

\* toolNode: one ToolMessage per tool call of the last message; then the
\* unconditional edge to the grading node.
toolNode ==
    /\ ragStatus = "running" /\ ragNext = NODE_RETRIEVE
    /\ LET calls == Last(messages).tool_calls
           results == [k \in 1..Len(calls) |-> ToolMessage(Content("doc", calls[k].args, k))]
       IN messages' = GraphStateReducer(messages, results)
    /\ RagFinish(NODE_RELEVANCE)
    /\ ragTrace' = Append(ragTrace, NODE_RETRIEVE)
    /\ UNCHANGED <<ragVariant, score, agentInput>>
    /\ UNCHANGED <<triVars, agVars, todoVars, replayVars, implVars>>

\* gradeDocumentRelevance / gradeDocuments, then the conditional edge. A throw
\* of the router fails the step: the update of the step is not applied.
gradeDocumentRelevance ==
    /\ ragStatus = "running" /\ ragNext = NODE_RELEVANCE
    /\ \E response \in GradeResponses(messages[1].content, Last(messages).content) :
         LET ms == GraphStateReducer(messages, <<response>>)
             b == relevanceBranch(ragVariant, ms)
         IN /\ score' = response
            /\ IF b.failed
               THEN /\ ragStatus' = "failed"
                    /\ ragError' = b.to
                    /\ UNCHANGED <<messages, ragNext>>
               ELSE /\ messages' = ms
                    /\ RagFinish(b.to)
    /\ ragTrace' = Append(ragTrace, NODE_RELEVANCE)
    /\ UNCHANGED <<ragVariant, agentInput>>
    /\ UNCHANGED <<triVars, agVars, todoVars, replayVars, implVars>>

\* transformQuery that puts the rewritten question in the place of the question.
transformQueryInPlace ==
    /\ ragStatus = "running" /\ ragNext = NODE_TRANSFORM
    /\ messages' = [messages EXCEPT
                      ![1] = HumanMessage(Content("rewrite", messages[1].content.i, 0))]
    /\ RagFinish(NODE_AGENT)
    /\ ragTrace' = Append(ragTrace, NODE_TRANSFORM)
    /\ UNCHANGED <<ragVariant, score, agentInput>>
    /\ UNCHANGED <<triVars, agVars, todoVars, replayVars, implVars>>

\* transformQuery / rewrite, then the edge back to the agent.
transformQuery ==
    /\ ragStatus = "running" /\ ragNext = NODE_TRANSFORM
    /\ messages' = GraphStateReducer(messages,
                      <<AIMessage(<<>>, Content("rewrite", messages[1].content.i, 0))>>)
    /\ RagFinish(NODE_AGENT)
    /\ ragTrace' = Append(ragTrace, NODE_TRANSFORM)
    /\ UNCHANGED <<ragVariant, score, agentInput>>
    /\ UNCHANGED <<triVars, agVars, todoVars, replayVars, implVars>>

\* generate, then the edge to "__end__".
generate ==
    /\ ragStatus = "running" /\ ragNext = NODE_GENERATE
    /\ LET k == lastToolMessage(messages)
       IN IF k = 0
          THEN /\ ragStatus' = "failed"
               /\ ragError' = "MissingContext"
               /\ UNCHANGED <<messages, ragNext>>
          ELSE /\ messages' = GraphStateReducer(messages,
                     <<AIMessage(<<>>, Content("answer", messages[1].content.i, messages[k].content.i))>>)
               /\ RagFinish(END)
    /\ ragTrace' = Append(ragTrace, NODE_GENERATE)
    /\ UNCHANGED <<ragVariant, score, agentInput>>
    /\ UNCHANGED <<triVars, agVars, todoVars, replayVars, implVars>>

RagNext ==
    \/ RagStart
    \/ callAgent
    \/ toolNode
    \/ gradeDocumentRelevance
    \/ transformQuery
    \/ generate

(***************************************************************************)
(* The triage graph (src/email-workflow.js). A snapshot is a function from *)
(* the channels that hold a value to their values: a channel that was      *)
(* never written is not in its domain (undefined in the source).           *)
(*                                                                         *)
(* StateGraph, Command, MemorySaver and interrupt are those of             *)
(* @langchain/langgraph (line 1). As the graph uses them:                  *)
(*  - a run proceeds in supersteps: the nodes that the previous step led   *)
(*    to all run from the same snapshot, their updates are applied         *)
(*    together, and then the checkpointer stores the snapshot with the     *)
(*    nodes to run next under the run's thread_id;                         *)
(*  - a node that returns a Command names its successors with goto,        *)
(*    any other node is followed by the targets of its addEdge calls;      *)
(*  - interrupt(payload) called without a resume value throws out of the   *)
(*    node: nothing of the node is applied and invoke returns; invoking    *)
(*    with Command({resume}) runs the interrupted node again from its      *)
(*    first line, and this time interrupt returns the resume value.        *)
(***************************************************************************)
Threads == {"example-thread-1", "example-thread-2"}

Nodes == {"read_email", "classify_intent", "search_documentation", "bug_tracking",
          "write_response", "human_review", "send_reply"}

\* EmailClassificationSchema (topic and summary are free text).
Intents == {"question", "bug", "billing", "feature", "complex"}
Urgencies == {"low", "medium", "high", "critical"}
Topics == {"export"}
Classifications == [intent : Intents, urgency : Urgencies, topic : Topics]

TicketIds == {"BUG_17", "BUG_4711"}          \* `BUG_${Math.floor(Math.random() * 10000)}`
Drafts == {"", "draft"}            \* response.content of the drafting model

\* 'Approved by Human: ' + draft, on Drafts (email-workflow.js:162).
ApprovedByHuman(draft) ==
    IF draft = "" THEN "Approved by Human: " ELSE "Approved by Human: draft"

\* Resume values a reviewer may supply for a draft; main supplies the one with
\* approved and ApprovedByHuman(draft) (email-workflow.js:159-164).
Decisions(draft) ==
    [approved : BOOLEAN, editedResponse : {"", "edited", ApprovedByHuman(draft)}]

\* initialState of main (email-workflow.js:144-148).
initialState(t) ==
    [emailContent |-> "My car has blown up!", senderEmail |-> "customer@test.com",
     emailId |-> t]

NoUpdate == [c \in {} |-> 0]

\* Annotation(): a channel without reducer keeps the last value written.
applyUpdate(snapshot, update) ==
    [c \in DOMAIN snapshot \cup DOMAIN update |->
        IF c \in DOMAIN update THEN update[c] ELSE snapshot[c]]

\* The result of a node: {update, goto}; goto is {} when the node returns a plain
\* update and the static edges decide.
Result(update, targets, isCommand) ==
    [update |-> update, goto |-> targets, command |-> isCommand]

readEmail(state) == Result(NoUpdate, {}, FALSE)

classifyIntent(state, classification) ==
    Result([classification |-> classification], {}, FALSE)

searchDocumentation(state) ==
    LET classification == IF "classification" \in DOMAIN state
                          THEN state.classification
                          ELSE [intent |-> "question", topic |-> "general"]
    IN Result([searchResults |->
                 << <<"Doc for", classification.intent, classification.topic>>,
                    <<"Standard procedure for", classification.topic>> >>], {}, FALSE)

\* bugTracking that routes by the ticket number it drew.
bugTrackingRouted(ticket) ==
    Result([ticketId |-> ticket],
           IF ticket = "BUG_17" THEN {"write_response"} ELSE {"send_reply"}, TRUE)

bugTracking(ticket) == Result([ticketId |-> ticket], {}, FALSE)

\* needsReview without the 'critical' urgency.
needsReviewHighOnly(classification) ==
    \/ classification.urgency \in {"high"}
    \/ classification.intent = "complex"

needsReview(classification) ==
    \/ classification.urgency \in {"high", "critical"}
    \/ classification.intent = "complex"

\* writeResponse that returns its update without a Command.
writeResponseStaticEdge(state, content) ==
    Result([draftResponse |-> content], {}, FALSE)

writeResponse(state, content) ==
    Result([draftResponse |-> content],
           {IF needsReview(state.classification) THEN "human_review" ELSE "send_reply"},
           TRUE)

\* humanReview without the fallback to the draft.
humanReviewNoFallback(state, decision) ==
    IF decision.approved
    THEN Result([draftResponse |-> decision.editedResponse], {"send_reply"}, TRUE)
    ELSE Result(NoUpdate, {}, TRUE)

\* humanReview after the interrupt call returned `decision`.
humanReview(state, decision) ==
    IF decision.approved
    THEN Result([draftResponse |-> IF decision.editedResponse # ""
                                   THEN decision.editedResponse
                                   ELSE state.draftResponse],
                {"send_reply"}, TRUE)
    ELSE Result(NoUpdate, {}, TRUE)

sendReply(state) == Result(NoUpdate, {}, FALSE)

\* The static edges of the graph (email-workflow.js:132-138); END is no node.
edges(n) ==
    CASE n = "read_email" -> {"classify_intent"}
      [] n = "classify_intent" -> {"search_documentation", "bug_tracking"}
      [] n = "search_documentation" -> {"write_response"}
      [] n = "bug_tracking" -> {"write_response"}
      [] OTHER -> {}

\* A checkpoint of the MemorySaver.
Checkpoint(nxt, vals, intr) == [next |-> nxt, values |-> vals, interrupt |-> intr]
NoInterrupt == [action |-> "none", draft |-> ""]
NoCheckpoint == Checkpoint({}, NoUpdate, NoInterrupt)

\* put that stores nothing.
putNothing(mem, t, checkpoint) == mem

\* put that ignores the thread id.
putShared(mem, t, checkpoint) == [u \in DOMAIN mem |-> checkpoint]

\* memory.put: the checkpoint of thread t is replaced, the others are kept.
put(mem, t, checkpoint) == [mem EXCEPT ![t] = checkpoint]

(***************************************************************************)
(* The inline workflow (src/email-workflow-no-graph.js), as far as the     *)
(* claims compare the graph with it.                                       *)
(***************************************************************************)
\* runEmailWorkflow, lines 63-72: the ticket branch or the documentation branch.
inlineRoute(state, ticket) ==
    IF state.classification.intent = "bug"
    THEN applyUpdate(state, [ticketId |-> ticket])
    ELSE applyUpdate(state, searchDocumentation(state).update)

\* runEmailWorkflow, lines 91-109: the review step with the reviewer's decision
\* received in place; sent tells whether sendReply ran.
inlineReview(state, decision) ==
    IF \/ state.classification.urgency \in {"high", "critical"}
       \/ state.classification.intent = "complex"
    THEN IF ~decision.approved
         THEN [state |-> applyUpdate(state, [draftResponse |-> "Rejected by human review"]),
               sent |-> FALSE]
         ELSE [state |-> applyUpdate(state,
                            [draftResponse |-> IF decision.editedResponse # ""
                                               THEN decision.editedResponse
                                               ELSE state.draftResponse]),
               sent |-> TRUE]
    ELSE [state |-> state, sent |-> TRUE]

TriInit ==
    /\ values = [t \in Threads |-> NoUpdate]
    /\ next = [t \in Threads |-> {}]
    /\ done = [t \in Threads |-> {}]
    /\ writes = [t \in Threads |-> NoUpdate]
    /\ goto = [t \in Threads |-> {}]
    /\ status = [t \in Threads |-> "idle"]
    /\ memory = [t \in Threads |-> NoCheckpoint]
    /\ mainPc = [t \in Threads |-> "start"]
    /\ trace = [t \in Threads |-> <<>>]
    /\ reviewLog = [t \in Threads |-> 0]
    /\ resumed = [t \in Threads |-> <<>>]
    /\ payload = [t \in Threads |-> NoInterrupt]

\* graph.invoke(initialState, config) (email-workflow.js:151): the input is
\* written to the channels, START leads to read_email, the input is checkpointed.
MainInvoke(t) ==
    /\ mainPc[t] = "start"
    /\ mainPc' = [mainPc EXCEPT ![t] = "invoke"]
    /\ status' = [status EXCEPT ![t] = "running"]
    /\ values' = [values EXCEPT ![t] = initialState(t)]
    /\ next' = [next EXCEPT ![t] = {"read_email"}]
    /\ memory' = put(memory, t, Checkpoint({"read_email"}, initialState(t), NoInterrupt))
    /\ UNCHANGED <<done, writes, goto, trace, reviewLog, resumed, payload, ragVars, agVars,
                   todoVars, replayVars, implVars>>

\* Finish without the superstep: the update of a node is applied and its
\* successors are triggered as soon as the node ends.
FinishEach(t, n, r) ==
    LET vs == applyUpdate(values[t], r.update)
        tg == (next[t] \ {n}) \cup (IF r.command THEN r.goto ELSE edges(n))
    IN /\ trace' = [trace EXCEPT ![t] = Append(@, n)]
       /\ values' = [values EXCEPT ![t] = vs]
       /\ next' = [next EXCEPT ![t] = tg]
       /\ memory' = put(memory, t, Checkpoint(tg, vs, NoInterrupt))
       /\ status' = [status EXCEPT ![t] = IF tg = {} THEN "completed" ELSE "running"]
       /\ UNCHANGED <<done, writes, goto>>

\* The end of a node's run inside its superstep. The node's result is buffered;
\* when it is the last node of the superstep, the buffered updates are applied,
\* the successors become the next superstep and the checkpoint is saved.
Finish(t, n, r) ==
    LET ws == applyUpdate(writes[t], r.update)
        tg == goto[t] \cup (IF r.command THEN r.goto ELSE edges(n))
        dn == done[t] \cup {n}
    IN /\ trace' = [trace EXCEPT ![t] = Append(@, n)]
       /\ IF dn = next[t]
          THEN LET vs == applyUpdate(values[t], ws)
               IN /\ values' = [values EXCEPT ![t] = vs]
                  /\ next' = [next EXCEPT ![t] = tg]
                  /\ memory' = put(memory, t, Checkpoint(tg, vs, NoInterrupt))
                  /\ status' = [status EXCEPT ![t] = IF tg = {} THEN "completed" ELSE "running"]
                  /\ done' = [done EXCEPT ![t] = {}]
                  /\ writes' = [writes EXCEPT ![t] = NoUpdate]
                  /\ goto' = [goto EXCEPT ![t] = {}]
          ELSE /\ done' = [done EXCEPT ![t] = dn]
               /\ writes' = [writes EXCEPT ![t] = ws]
               /\ goto' = [goto EXCEPT ![t] = tg]
               /\ UNCHANGED <<values, next, memory, status>>

Ready(t, n) == status[t] = "running" /\ n \in next[t] \ done[t]

ReadEmail(t) ==
    /\ Ready(t, "read_email")
    /\ Finish(t, "read_email", readEmail(values[t]))
    /\ UNCHANGED <<mainPc, reviewLog, resumed, payload, ragVars, agVars,
                   todoVars, replayVars, implVars>>

\* `answers` are the classifications the model may give.
ClassifyIntent(t, answers) ==
    /\ Ready(t, "classify_intent")
    /\ \E classification \in answers :
         Finish(t, "classify_intent", classifyIntent(values[t], classification))
    /\ UNCHANGED <<mainPc, reviewLog, resumed, payload, ragVars, agVars,
                   todoVars, replayVars, implVars>>

SearchDocumentation(t) ==
    /\ Ready(t, "search_documentation")
    /\ Finish(t, "search_documentation", searchDocumentation(values[t]))
    /\ UNCHANGED <<mainPc, reviewLog, resumed, payload, ragVars, agVars,
                   todoVars, replayVars, implVars>>

BugTracking(t) ==
    /\ Ready(t, "bug_tracking")
    /\ \E ticket \in TicketIds : Finish(t, "bug_tracking", bugTracking(ticket))
    /\ UNCHANGED <<mainPc, reviewLog, resumed, payload, ragVars, agVars,
                   todoVars, replayVars, implVars>>

WriteResponse(t) ==
    /\ Ready(t, "write_response")
    /\ \E content \in Drafts : Finish(t, "write_response", writeResponse(values[t], content))
    /\ UNCHANGED <<mainPc, reviewLog, resumed, payload, ragVars, agVars,
                   todoVars, replayVars, implVars>>

\* humanReview entered without a resume value: line 96 runs, interrupt() throws,
\* nothing of the node is applied, the payload is stored with the thread's
\* checkpoint and handed to the caller.
HumanReviewInterrupt(t) ==
    /\ Ready(t, "human_review") /\ Len(resumed[t]) = 0
    /\ LET p == [action |-> "Review Draft", draft |-> values[t].draftResponse]
       IN /\ payload' = [payload EXCEPT ![t] = p]
          /\ memory' = put(memory, t, [memory[t] EXCEPT !.interrupt = p])
    /\ reviewLog' = [reviewLog EXCEPT ![t] = @ + 1]
    /\ trace' = [trace EXCEPT ![t] = Append(@, "human_review")]
    /\ status' = [status EXCEPT ![t] = "interrupted"]
    /\ UNCHANGED <<values, next, done, writes, goto, mainPc, resumed, ragVars, agVars,
                   todoVars, replayVars, implVars>>

\* HumanReviewResume that continues after the interrupt call instead of running
\* the node again.
HumanReviewResumeMidNode(t) ==
    /\ Ready(t, "human_review") /\ Len(resumed[t]) > 0
    /\ Finish(t, "human_review", humanReview(values[t], Last(resumed[t])))
    /\ UNCHANGED <<mainPc, reviewLog, resumed, payload, ragVars, agVars,
                   todoVars, replayVars, implVars>>

\* humanReview entered with a resume value: the node runs again from line 96 and
\* interrupt() returns the value.
HumanReviewResume(t) ==
    /\ Ready(t, "human_review") /\ Len(resumed[t]) > 0
    /\ reviewLog' = [reviewLog EXCEPT ![t] = @ + 1]
    /\ Finish(t, "human_review", humanReview(values[t], Last(resumed[t])))
    /\ UNCHANGED <<mainPc, resumed, payload, ragVars, agVars,
                   todoVars, replayVars, implVars>>

SendReply(t) ==
    /\ Ready(t, "send_reply")
    /\ Finish(t, "send_reply", sendReply(values[t]))
    /\ UNCHANGED <<mainPc, reviewLog, resumed, payload, ragVars, agVars,
                   todoVars, replayVars, implVars>>

\* MainGetState without the test of state.next.
MainGetStateNoGuard(t) ==
    /\ mainPc[t] = "invoke" /\ status[t] \in {"interrupted", "completed"}
    /\ mainPc' = [mainPc EXCEPT ![t] = "paused"]
    /\ UNCHANGED <<values, next, done, writes, goto, status, memory, trace,
                   reviewLog, resumed, payload, ragVars, agVars,
                   todoVars, replayVars, implVars>>

\* main after graph.invoke returned (email-workflow.js:154-169): getState reads
\* the newest checkpoint; the branch taken depends on state.next.
MainGetState(t) ==
    /\ mainPc[t] = "invoke" /\ status[t] \in {"interrupted", "completed"}
    /\ LET state == memory[t]
       IN mainPc' = [mainPc EXCEPT ![t] =
            IF state.next # {} /\ state.next = {"human_review"}
            THEN "paused" ELSE "finished automatically"]
    /\ UNCHANGED <<values, next, done, writes, goto, status, memory, trace,
                   reviewLog, resumed, payload, ragVars, agVars,
                   todoVars, replayVars, implVars>>

\* graph.invoke(new Command({resume}), config): the run is re-entered from the
\* newest checkpoint of the thread with the resume value.
MainResume(t) ==
    /\ mainPc[t] = "paused"
    /\ \E decision \in Decisions(memory[t].values.draftResponse) :
         resumed' = [resumed EXCEPT ![t] = Append(@, decision)]
    /\ mainPc' = [mainPc EXCEPT ![t] = "resume"]
    /\ values' = [values EXCEPT ![t] = memory[t].values]
    /\ next' = [next EXCEPT ![t] = memory[t].next]
    /\ status' = [status EXCEPT ![t] = "running"]
    /\ UNCHANGED <<done, writes, goto, memory, trace, reviewLog, payload, ragVars, agVars,
                   todoVars, replayVars, implVars>>

\* 'Workflow Complete.' (email-workflow.js:166)
MainComplete(t) ==
    /\ mainPc[t] = "resume" /\ status[t] = "completed"
    /\ mainPc' = [mainPc EXCEPT ![t] = "complete"]
    /\ UNCHANGED <<values, next, done, writes, goto, status, memory, trace,
                   reviewLog, resumed, payload, ragVars, agVars,
                   todoVars, replayVars, implVars>>

ThreadStep(t, answers) ==
    \/ MainInvoke(t)
    \/ ReadEmail(t)
    \/ ClassifyIntent(t, answers)
    \/ SearchDocumentation(t)
    \/ BugTracking(t)
    \/ WriteResponse(t)
    \/ HumanReviewInterrupt(t)
    \/ HumanReviewResume(t)
    \/ SendReply(t)
    \/ MainGetState(t)
    \/ MainResume(t)
    \/ MainComplete(t)

(***************************************************************************)
(* The deep agent and its sub-agents (src/unnamed/part_002; the supervisor *)
(* of src/unnamed/part_001 has the same createTaskTool). createAgent is    *)
(* that of langchain (line 5): the agent alternates a model call and a     *)
(* tools step until the model answers without tool calls; the tools step   *)
(* runs the tool calls of the last message concurrently and appends one    *)
(* ToolMessage per call, in the order of the calls, once all have settled; *)
(* a tool function that throws yields a ToolMessage with the error text.   *)
(* Of the supervisor's tools the model holds task, ls and write_file; a    *)
(* sub-agent makes one tavily_search call per model answer.                *)
(*                                                                         *)
(* A message content of this part is Content(k, i, j): k the fixed words   *)
(* of a text, i the names listed in it, j the text put into it.            *)
(***************************************************************************)
max_concurrent_research_units == 3
max_researcher_iterations == 3
max_search_tool_calls == 5

Args(a, b) == [a |-> a, b |-> b]
Text(s) == Content("", <<>>, s)        \* a content that is the text s as it is
NoText == Text("")

\* runExample: the question of the run (part_002:530-532).
question == "Give me an overview of Model Context Protocol (MCP)."

researchSubAgent == [name |-> "research-agent", tools |-> <<"tavily_search", "think_tool">>]
subagents == <<researchSubAgent>>

\* createTaskTool: Object.keys(agents), the registry in insertion order.
agents == [k \in 1..Len(subagents) |-> subagents[k].name]

\* What the supervising model may put into a task call.
Descriptions == {"Research the Model Context Protocol"}
SubagentTypes == {"research-agent", "general-purpose"}

\* The tool calls the supervising model may ask for.
TaskCalls == { ToolCall("task", Args(d, s)) : d \in Descriptions, s \in SubagentTypes }
FileCalls == { ToolCall("ls", Args("", "")),
               ToolCall("write_file", Args("request.md", "user request")) }

\* Object.keys(virtualFileSystem)
keys(fs) == [k \in 1..Len(fs) |-> fs[k].name]

\* virtualFileSystem[name] = content on the plain object {}: a whole-value
\* overwrite, a new key goes last. The key '__proto__' is the accessor inherited
\* from Object.prototype, whose setter ignores a string: no property is made.
assign(fs, name, content) ==
    IF name = "__proto__" THEN fs
    ELSE IF \E k \in 1..Len(fs) : fs[k].name = name
    THEN [k \in 1..Len(fs) |-> IF fs[k].name = name
                               THEN [name |-> name, content |-> content] ELSE fs[k]]
    ELSE Append(fs, [name |-> name, content |-> content])

ls(fs) ==
    IF Len(keys(fs)) = 0
    THEN Content("No files in the virtual filesystem", <<>>, "")
    ELSE Content("ls", keys(fs), "")

write_file(fs, file_path, content) ==
    [fs |-> assign(fs, file_path, content),
     result |-> Content("Updated file", <<file_path>>, content)]

\* read_file with the default offset and limit. virtualFileSystem[file_path] is
\* the content of the entry, undefined when there is none (here "", which is
\* falsy as well), and Object.prototype for '__proto__', on which content.split
\* is not a function.
read_file(fs, file_path) ==
    LET content == IF \E k \in 1..Len(fs) : fs[k].name = file_path
                   THEN (CHOOSE e \in {fs[k] : k \in 1..Len(fs)} : e.name = file_path).content
                   ELSE ""
    IN IF file_path = "__proto__"
       THEN [throws |-> TRUE, result |-> Content("TypeError", <<file_path>>, "")]
       ELSE IF content = ""
       THEN [throws |-> FALSE, result |-> Content("Error: File not found", <<file_path>>, "")]
       ELSE IF content = ""
       THEN [throws |-> FALSE,
             result |-> Content("System reminder: File exists but has empty contents", <<>>, "")]
       ELSE [throws |-> FALSE, result |-> Content("lines", <<file_path>>, content)]

\* What tavilyClient.search may do: throw, or return results (max_results is 1).
\* domain is the host of result.url without 'www.', timestamp the last four
\* digits of Date.now().
SearchResponses ==
    { [throws |-> TRUE, results |-> <<>>], [throws |-> FALSE, results |-> <<>>],
      [throws |-> FALSE,
       results |-> <<[domain |-> "modelcontextprotocol.io", timestamp |-> "0417"]>>] }

\* domain.replace(/\./g, '_') + '_' + timestamp + '.md'
filename(result) ==
    (IF result.domain = "modelcontextprotocol.io" THEN "modelcontextprotocol_io"
     ELSE "example_com") \o "_" \o result.timestamp \o ".md"

\* tavily_search: every result is saved to the file table under its filename;
\* an error of the search is caught and reported as text.
RECURSIVE saveResults(_, _)
saveResults(fs, results) ==
    IF results = <<>> THEN fs
    ELSE saveResults(assign(fs, filename(Head(results)), "# Search Result"), Tail(results))

tavily_search(fs, query, response) ==
    IF response.throws
    THEN [fs |-> fs, result |-> Content("Error performing search", <<>>, "")]
    ELSE [fs |-> saveResults(fs, response.results),
          result |-> Content("Found result(s). Files saved",
                             [k \in 1..Len(response.results) |-> filename(response.results[k])],
                             "")]

\* taskTool, line 334, with every type taken as registered.
registeredAny(subagent_type) == TRUE

\* taskTool, line 334: agents[subagent_type]
registered(subagent_type) == \E k \in 1..Len(agents) : agents[k] = subagent_type

\* taskTool, line 335: the text returned for a type that is not registered.
unknownType(subagent_type) ==
    Content("Error: invoked agent of type, the only allowed types are", agents, subagent_type)

\* A state for the sub-agent that carries the supervisor's question and file.
inheritedState(description) ==
    [messages |-> <<HumanMessage(Text(question)), HumanMessage(Text(description))>>,
     files |-> <<[name |-> "request.md", content |-> "user request"]>>]

\* taskTool, lines 343-346: the state the sub-agent is invoked with.
isolatedState(description) ==
    [messages |-> <<HumanMessage(Text(description))>>, files |-> <<>>]

\* taskTool, line 352: the content of the last message, or the fallback text.
taskResult(result) ==
    IF Last(result.messages).content.j # ""
    THEN Last(result.messages).content
    ELSE Content("No result returned", <<>>, "")

\* A tools step that lets the error of a tool function fail the run.
handleToolErrorsOff(error, call) ==
    [throws |-> TRUE, content |-> Content(error, <<call.name>>, "")]

\* The tools step of createAgent on a tool function that threw: the error
\* becomes the text of the call's ToolMessage.
handleToolErrors(error, call) ==
    [throws |-> FALSE, content |-> Content(error, <<call.name>>, "Please fix your mistakes.")]

NoRun == [messages |-> <<>>, files |-> <<>>]
Task(call) == [call |-> call, phase |-> "requested", result |-> NoText, run |-> NoRun]

\* The tool calls a history asked for.
RECURSIVE toolCalls(_)
toolCalls(ms) ==
    IF ms = <<>> THEN 0 ELSE Len(Head(ms).tool_calls) + toolCalls(Tail(ms))

\* Answers the supervising model may give: tool calls out of `plans`, the final
\* answer, or a failure of the model provider.
SupervisorResponses(plans) ==
    { [kind |-> "calls", calls |-> c] : c \in plans }
    \cup { [kind |-> "answer", calls |-> <<>>], [kind |-> "throws", calls |-> <<>>] }

\* Answers a sub-agent's model may give: a search while `more`, a final text
\* (possibly empty), or a failure of the model provider.
SubAgentResponses(more) ==
    { [kind |-> "answer", message |-> AIMessage(<<>>, Text(text))] :
        text \in {"report", ""} }
    \cup { [kind |-> "throws", message |-> AIMessage(<<>>, NoText)] }
    \cup (IF more
          THEN { [kind |-> "calls",
                  message |-> AIMessage(<<ToolCall("tavily_search", Args("MCP", ""))>>, NoText)] }
          ELSE {})

AgInit ==
    /\ virtualFileSystem = <<>>
    /\ agMessages = <<HumanMessage(Text(question))>>
    /\ agStatus = "running"
    /\ agError = "none"
    /\ tasks = <<>>

\* The model call of the supervising agent.
SupervisorModel(plans) ==
    /\ agStatus = "running" /\ tasks = <<>>
    /\ \E response \in SupervisorResponses(plans) :
         /\ agMessages' = IF response.kind = "calls"
                          THEN Append(agMessages, AIMessage(response.calls, NoText))
                          ELSE IF response.kind = "answer"
                          THEN Append(agMessages, AIMessage(<<>>, Text("overview")))
                          ELSE agMessages
         /\ tasks' = [k \in 1..Len(response.calls) |-> Task(response.calls[k])]
         /\ agStatus' = IF response.kind = "calls" THEN "running"
                        ELSE IF response.kind = "answer" THEN "completed" ELSE "failed"
         /\ agError' = IF response.kind = "throws" THEN "ExternalServiceFailure" ELSE "none"
    /\ UNCHANGED <<virtualFileSystem, ragVars, triVars,
                   todoVars, replayVars, implVars>>

\* The end of tool call i inside the tools step: its result is kept; when it is
\* the last call to settle, the ToolMessages are appended in the order of the
\* calls and the step is over.
Settle(i, content) ==
    LET ts == [tasks EXCEPT ![i] = [call |-> @.call, phase |-> "settled",
                                    result |-> content, run |-> NoRun]]
    IN IF \A k \in 1..Len(ts) : ts[k].phase = "settled"
       THEN /\ agMessages' = agMessages \o [k \in 1..Len(ts) |-> ToolMessage(ts[k].result)]
            /\ tasks' = <<>>
       ELSE /\ tasks' = ts
            /\ UNCHANGED agMessages

Requested(i, name) ==
    /\ agStatus = "running" /\ i \in 1..Len(tasks)
    /\ tasks[i].phase = "requested" /\ tasks[i].call.name = name

Running(i) == agStatus = "running" /\ i \in 1..Len(tasks) /\ tasks[i].phase = "running"

Ls(i) ==
    /\ Requested(i, "ls")
    /\ Settle(i, ls(virtualFileSystem))
    /\ UNCHANGED <<virtualFileSystem, agStatus, agError, ragVars, triVars,
                   todoVars, replayVars, implVars>>

WriteFile(i) ==
    /\ Requested(i, "write_file")
    /\ LET w == write_file(virtualFileSystem, tasks[i].call.args.a, tasks[i].call.args.b)
       IN /\ virtualFileSystem' = w.fs
          /\ Settle(i, w.result)
    /\ UNCHANGED <<agStatus, agError, ragVars, triVars,
                   todoVars, replayVars, implVars>>

ReadFile(i) ==
    /\ Requested(i, "read_file")
    /\ LET r == read_file(virtualFileSystem, tasks[i].call.args.a)
           h == handleToolErrors(r.result.k, tasks[i].call)
       IN IF ~r.throws
          THEN /\ Settle(i, r.result)
               /\ UNCHANGED <<agStatus, agError>>
          ELSE IF h.throws
          THEN /\ agStatus' = "failed"
               /\ agError' = h.content.k
               /\ UNCHANGED <<agMessages, tasks>>
          ELSE /\ Settle(i, h.content)
               /\ UNCHANGED <<agStatus, agError>>
    /\ UNCHANGED <<virtualFileSystem, ragVars, triVars, todoVars, replayVars, implVars>>

\* taskTool up to `await subAgent.invoke(state)`: the answer for a type that is
\* not registered, or the start of the sub-agent's run.
TaskTool(i) ==
    /\ Requested(i, "task")
    /\ IF ~registered(tasks[i].call.args.b)
       THEN Settle(i, unknownType(tasks[i].call.args.b))
       ELSE /\ tasks' = [tasks EXCEPT ![i] = [call |-> @.call, phase |-> "running",
                            result |-> NoText, run |-> isolatedState(@.call.args.a)]]
            /\ UNCHANGED agMessages
    /\ UNCHANGED <<virtualFileSystem, agStatus, agError, ragVars, triVars,
                   todoVars, replayVars, implVars>>

\* The tavily_search calls a history asked for.
RECURSIVE searchCalls(_)
searchCalls(ms) ==
    IF ms = <<>> THEN 0
    ELSE (IF Len(Head(ms).tool_calls) > 0 /\ Head(ms).tool_calls[1].name = "tavily_search"
          THEN 1 ELSE 0) + searchCalls(Tail(ms))

\* The model call of the sub-agent of task i, at most `limit` searches explored.
\* A final answer ends subAgent.invoke and taskTool returns (line 352); a
\* failure makes subAgent.invoke and with it taskTool throw.
SubAgentModel(i, limit) ==
    /\ Running(i) /\ Last(tasks[i].run.messages).type \in {"human", "tool"}
    /\ \E response \in SubAgentResponses(searchCalls(tasks[i].run.messages) < limit) :
         LET result == [tasks[i].run EXCEPT !.messages = Append(@, response.message)]
             h == handleToolErrors("ExternalServiceFailure", tasks[i].call)
         IN IF response.kind = "calls"
            THEN /\ tasks' = [tasks EXCEPT ![i].run = result]
                 /\ UNCHANGED <<agMessages, agStatus, agError>>
            ELSE IF response.kind = "answer"
            THEN /\ Settle(i, taskResult(result))
                 /\ UNCHANGED <<agStatus, agError>>
            ELSE IF h.throws
            THEN /\ agStatus' = "failed"
                 /\ agError' = h.content.k
                 /\ UNCHANGED <<agMessages, tasks>>
            ELSE /\ Settle(i, h.content)
                 /\ UNCHANGED <<agStatus, agError>>
    /\ UNCHANGED <<virtualFileSystem, ragVars, triVars,
                   todoVars, replayVars, implVars>>

\* The tools step of the sub-agent of task i: tavily_search.
TavilySearch(i) ==
    /\ Running(i) /\ Last(tasks[i].run.messages).type = "ai"
    /\ \E response \in SearchResponses :
         LET r == tavily_search(virtualFileSystem,
                                Last(tasks[i].run.messages).tool_calls[1].args.a, response)
         IN /\ virtualFileSystem' = r.fs
            /\ tasks' = [tasks EXCEPT ![i].run.messages = Append(@, ToolMessage(r.result))]
    /\ UNCHANGED <<agMessages, agStatus, agError, ragVars, triVars,
                   todoVars, replayVars, implVars>>

\* The non-empty sequences over S of at most n entries.
Plans(S, n) == UNION { [1..m -> S] : m \in 1..n }

\* Every mix of at most MaxTools tool calls over the run.
DelegPlans == Plans(TaskCalls \cup FileCalls, MaxTools - toolCalls(agMessages))

\* One message that delegates to one sub-agent more than the prompt allows at once.
FanPlans ==
    IF toolCalls(agMessages) = 0
    THEN { [k \in 1..(max_concurrent_research_units + 1) |->
              ToolCall("task", Args(d, "research-agent"))] : d \in Descriptions }
    ELSE {}

\* One delegation per message, one more than the prompt allows over the run.
BudgetPlans ==
    IF toolCalls(agMessages) < max_researcher_iterations + 1
    THEN { <<ToolCall("task", Args(d, "research-agent"))>> : d \in Descriptions }
    ELSE {}

(***************************************************************************)
(* Specifications. RagSpec runs the retrieval graph. TriSpec runs one      *)
(* triage thread over every classification; ConcSpec interleaves the       *)
(* threads of Threads over the classifications of ConcClassifications.     *)
(* DelegSpec runs the deep agent over every mix of tool calls; FanSpec     *)
(* runs one message of concurrent delegations; BudgetSpec runs one         *)
(* delegation per message with long sub-agent runs.                        *)
(***************************************************************************)
(***************************************************************************)
(* The task simulation (src/experiments/todo.js). A task is its id and its *)
(* dependencies; every() over the dependencies array reads them as a set.  *)
(* The ids and dependencies are what the model's structured output holds:  *)
(* ids may repeat, a dependency may name the task itself or no task.       *)
(***************************************************************************)
TaskLists ==
    UNION { [1..n -> [id : {1, 2}, dependencies : SUBSET {1, 2, 3}]] : n \in 0..MaxTasks }

\* findIndex that takes the first task of the queue.
firstTaskIndex(queue, completed) == IF queue = <<>> THEN -1 ELSE 1

\* taskQueue.findIndex(task => task.dependencies.every(depId => completedTasks.has(depId)))
readyTaskIndex(queue, completed) ==
    IF \E k \in 1..Len(queue) : queue[k].dependencies \subseteq completed
    THEN CHOOSE k \in 1..Len(queue) :
            /\ queue[k].dependencies \subseteq completed
            /\ \A n \in 1..(k - 1) : ~(queue[n].dependencies \subseteq completed)
    ELSE -1

Line(text, id) == [text |-> text, id |-> id]

\* The while loop from its head to the next await or to the return of the
\* function: the line after the loop is logged on every way out of it.
whileLoop(queue, log) ==
    LET readyTaskIndex_ == readyTaskIndex(queue, completedTasks')
    IN IF queue = <<>>
       THEN /\ console' = Append(log, Line("All tasks have been successfully implemented!", 0))
            /\ todoPc' = "returned"
            /\ taskQueue' = queue
            /\ UNCHANGED task
       ELSE IF readyTaskIndex_ = -1
       THEN /\ console' = log \o
                 <<Line("Simulation Error: Circular dependency or missing dependency detected.", 0),
                   Line("All tasks have been successfully implemented!", 0)>>
            /\ todoPc' = "returned"
            /\ taskQueue' = queue
            /\ UNCHANGED task
       ELSE /\ task' = queue[readyTaskIndex_]
            /\ taskQueue' = [k \in 1..(Len(queue) - 1) |->
                               IF k < readyTaskIndex_ THEN queue[k] ELSE queue[k + 1]]
            /\ console' = Append(log, Line("[IN PROGRESS] Task", queue[readyTaskIndex_].id))
            /\ todoPc' = "await"

TodoInit ==
    /\ todoTasks = <<>>
    /\ taskQueue = <<>>
    /\ completedTasks = {}
    /\ task = [id |-> 0, dependencies |-> {}]
    /\ todoPc = "idle"
    /\ console = <<>>

\* The call, up to its first await or its return.
imitateTaskImplementation(taskList) ==
    /\ todoPc = "idle"
    /\ todoTasks' = taskList
    /\ completedTasks' = {}
    /\ whileLoop(taskList, <<Line("Starting Task Implementation Simulation", 0)>>)
    /\ UNCHANGED <<ragVars, triVars, agVars, replayVars, implVars>>

\* The timer of the task in progress fired: the task completes and the loop
\* goes on.
setTimeoutResolved ==
    /\ todoPc = "await"
    /\ completedTasks' = completedTasks \cup {task.id}
    /\ whileLoop(taskQueue, Append(console, Line("[COMPLETED]   Task", task.id)))
    /\ UNCHANGED todoTasks
    /\ UNCHANGED <<ragVars, triVars, agVars, replayVars, implVars>>

TodoNext ==
    \/ \E taskList \in TaskLists : imitateTaskImplementation(taskList)
    \/ setTimeoutResolved

\* Histories generate may be handed.
GenMessages ==
    { HumanMessage(Content("question", 0, 0)), AIMessage(<<>>, Content("rewrite", 0, 0)),
      ToolMessage(Content("doc", 1, 1)), ToolMessage(Content("doc", 2, 1)) }
GenHistories == UNION { [1..n -> GenMessages] : n \in 1..MaxHistory }

(***************************************************************************)
(* Checkpoint and replay. A snapshot is the channel values of a run. The   *)
(* messages channel has the reducer of GraphState, every other channel     *)
(* keeps the last value written. A checkpoint of the MemorySaver is a copy *)
(* of the snapshot kept under the thread id.                               *)
(***************************************************************************)
Snapshots ==
    { [messages |-> h] : h \in { <<HumanMessage(Content("question", 0, 0))>>,
                                 <<HumanMessage(Content("question", 0, 0)),
                                   ToolMessage(Content("doc", 1, 1))>> } }
    \cup { initialState("example-thread-1"),
           applyUpdate(initialState("example-thread-1"),
                       [classification |-> [intent |-> "bug", urgency |-> "high",
                                            topic |-> "export"],
                        ticketId |-> "BUG_17", draftResponse |-> "draft"]) }

\* The updates a node may return for a snapshot: one message for the messages
\* channel, or values for channels of the triage state.
Updates(s) ==
    IF "messages" \in DOMAIN s
    THEN { [messages |-> <<m>>] : m \in GenMessages }
    ELSE { [classification |-> c] :
             c \in { k \in Classifications : k.intent \in {"bug", "question"}
                                             /\ k.urgency = "low" } }
         \cup { [ticketId |-> k] : k \in TicketIds }
         \cup { [draftResponse |-> d] : d \in Drafts }
         \cup { NoUpdate }

\* One update applied to a snapshot, each channel by its reducer.
applyWrites(s, update) ==
    [c \in DOMAIN s \cup DOMAIN update |->
        IF c \notin DOMAIN update THEN s[c]
        ELSE IF c = "messages"
        THEN GraphStateReducer(IF c \in DOMAIN s THEN s[c] ELSE <<>>, update[c])
        ELSE applyUpdate(s, update)[c]]

RECURSIVE applyAll(_, _)
applyAll(s, us) == IF us = <<>> THEN s ELSE applyAll(applyWrites(s, Head(us)), Tail(us))

ReplayInit ==
    /\ direct = NoUpdate
    /\ saved = [t \in Threads |-> NoCheckpoint]
    /\ updates = <<>>
    /\ replayed = NoUpdate
    /\ replayPc = "idle"

\* A checkpoint of the snapshot s is taken before the sequence begins.
TakeCheckpoint(s) ==
    /\ replayPc = "idle"
    /\ direct' = s
    /\ saved' = put(saved, "example-thread-1", Checkpoint({}, s, NoInterrupt))
    /\ replayPc' = "applying"
    /\ UNCHANGED <<updates, replayed, ragVars, triVars, agVars, todoVars, implVars>>

\* A node update is applied to the snapshot directly.
ApplyDirect(update) ==
    /\ replayPc = "applying" /\ Len(updates) < MaxHistory
    /\ update \in Updates(direct)
    /\ direct' = applyWrites(direct, update)
    /\ updates' = Append(updates, update)
    /\ UNCHANGED <<saved, replayed, replayPc, ragVars, triVars, agVars, todoVars, implVars>>

\* The checkpoint is loaded and the same sequence is applied to it.
Replay ==
    /\ replayPc = "applying"
    /\ replayed' = applyAll(saved["example-thread-1"].values, updates)
    /\ replayPc' = "replayed"
    /\ UNCHANGED <<direct, saved, updates, ragVars, triVars, agVars, todoVars, implVars>>

ReplayNext ==
    \/ \E s \in Snapshots : TakeCheckpoint(s)
    \/ \E update \in UNION { Updates(s) : s \in Snapshots } : ApplyDirect(update)
    \/ Replay


(***************************************************************************)
(* The task server (src/unnamed/part_004): POST /generate-tasks writes     *)
(* public/tasks.json, POST /implement-task reads it, asks the model for    *)
(* the code of one task and writes the list back.  A handler gives up      *)
(* control at each await, so the steps of overlapping requests interleave. *)
(***************************************************************************)
Requests == 1..MaxRequests
undefined == -1                       \* a request body without taskId
TaskIdInputs == {undefined, 0, 1, 2, 3}
GeneratedIds == {0, 1, 2}
StoredTask(id) == [id |-> id, status |-> "pending", result |-> ""]
\* The lists /generate-tasks may store: at most two tasks, with distinct ids.
GeneratedLists ==
    { <<StoredTask(a)>> : a \in GeneratedIds }
        \cup { list \in { <<StoredTask(a), StoredTask(b)>> :
                             a \in GeneratedIds, b \in GeneratedIds } :
                 list[1].id # list[2].id }
\* What llm.invoke gives: content, empty content, or an error thrown.
ModelOutcomes == {"code", "", "throws"}

NoResponse == [status |-> 0, success |-> FALSE, taskResult |-> ""]
Response(code, success, result) ==
    [status |-> code, success |-> success, taskResult |-> result]
IdleRequest ==
    [pc |-> "idle", taskId |-> undefined, tasks |-> <<>>, taskToComplete |-> 0,
     gen |-> 0, seen |-> {}, response |-> NoResponse]

\* !taskId: undefined and 0 are falsy.
falsy(taskId) == taskId = undefined \/ taskId = 0

\* Array.prototype.find by id: the place of the first match, 0 for undefined.
find(list, taskId) ==
    IF \E k \in 1..Len(list) : list[k].id = taskId
    THEN CHOOSE k \in 1..Len(list) :
            list[k].id = taskId /\ \A j \in 1..(k - 1) : list[j].id # taskId
    ELSE 0

\* result.content || "No code generated", or the text of the catch branch.
cleanedResult(outcome) ==
    IF outcome = "throws" THEN "// Model processing failed. Please try again."
    ELSE IF outcome = "" THEN "No code generated"
    ELSE outcome

InFlight(r) == req[r].pc \notin {"idle", "done"}

ImplInit ==
    /\ tasksFile = [exists |-> FALSE, tasks |-> <<>>]
    /\ generations = 0
    /\ req = [r \in Requests |-> IdleRequest]

\* POST /generate-tasks stores the list the model produced.
generateTasks(list) ==
    /\ generations < MaxGenerations
    /\ tasksFile' = [exists |-> TRUE, tasks |-> list]
    /\ generations' = generations + 1
    /\ UNCHANGED <<req, ragVars, triVars, agVars, todoVars, replayVars>>

\* POST /implement-task arrives: the taskId test, then the awaits of the
\* import and of readFile begin.
implementTask(r, taskId) ==
    /\ req[r].pc = "idle"
    /\ req' = [req EXCEPT ![r] =
                 IF falsy(taskId)
                 THEN [@ EXCEPT !.pc = "done", !.taskId = taskId,
                                !.seen = { q \in Requests : InFlight(q) },
                                !.response = Response(400, FALSE, "")]
                 ELSE [@ EXCEPT !.pc = "readFile", !.taskId = taskId,
                                !.seen = { q \in Requests : InFlight(q) }]]
    /\ UNCHANGED <<tasksFile, generations, ragVars, triVars, agVars, todoVars, replayVars>>

\* readFile resolves: the list is parsed and the task looked up; the call of
\* the model begins.
readFileResolved(r) ==
    /\ req[r].pc = "readFile"
    /\ req' = [req EXCEPT ![r] =
                 IF ~tasksFile.exists
                 THEN [@ EXCEPT !.pc = "done", !.response = Response(404, FALSE, "")]
                 ELSE IF find(tasksFile.tasks, req[r].taskId) = 0
                 THEN [@ EXCEPT !.pc = "done", !.tasks = tasksFile.tasks,
                                !.gen = generations,
                                !.response = Response(404, FALSE, "")]
                 ELSE [@ EXCEPT !.pc = "invoke", !.tasks = tasksFile.tasks,
                                !.gen = generations,
                                !.taskToComplete = find(tasksFile.tasks, req[r].taskId)]]
    /\ UNCHANGED <<tasksFile, generations, ragVars, triVars, agVars, todoVars, replayVars>>

\* llm.invoke settles: the task of the request's own list gets its result and
\* its status; writeFile begins.
llmInvokeSettled(r, outcome) ==
    /\ req[r].pc = "invoke"
    /\ req' = [req EXCEPT ![r].pc = "writeFile",
                          ![r].tasks[req[r].taskToComplete].result = cleanedResult(outcome),
                          ![r].tasks[req[r].taskToComplete].status = "completed"]
    /\ UNCHANGED <<tasksFile, generations, ragVars, triVars, agVars, todoVars, replayVars>>

\* writeFile resolves: the file holds the request's list; the response is sent.
writeFileResolved(r) ==
    /\ req[r].pc = "writeFile"
    /\ tasksFile' = [exists |-> TRUE, tasks |-> req[r].tasks]
    /\ req' = [req EXCEPT ![r].pc = "done",
                          ![r].response =
                              Response(200, TRUE, req[r].tasks[req[r].taskToComplete].result)]
    /\ UNCHANGED <<generations, ragVars, triVars, agVars, todoVars, replayVars>>

ImplNext ==
    \/ \E list \in GeneratedLists : generateTasks(list)
    \/ \E r \in Requests, taskId \in TaskIdInputs : implementTask(r, taskId)
    \/ \E r \in Requests : readFileResolved(r)
    \/ \E r \in Requests, outcome \in ModelOutcomes : llmInvokeSettled(r, outcome)
    \/ \E r \in Requests : writeFileResolved(r)

Init == RagInit /\ TriInit /\ AgInit /\ TodoInit /\ ReplayInit /\ ImplInit

RagSpec == Init /\ [][RagNext]_vars

\* generate as a function of the state: the step of generate from any history.
GenInit ==
    /\ ragVariant \in {1, 2}
    /\ messages \in GenHistories
    /\ ragNext = NODE_GENERATE
    /\ ragStatus = "running"
    /\ ragError = "none"
    /\ ragTrace = <<>>
    /\ score = AIMessage(<<>>, Content("none", 0, 0))
    /\ agentInput = <<>>
    /\ TriInit /\ AgInit /\ TodoInit /\ ReplayInit /\ ImplInit
GenSpec == GenInit /\ [][generate]_vars

TriNext == ThreadStep("example-thread-1", Classifications)
TriSpec == Init /\ [][TriNext]_vars

ConcClassifications ==
    { c \in Classifications : c.intent \in {"bug", "complex"} /\ c.urgency \in {"low", "high"} }
ConcNext == \E t \in Threads : ThreadStep(t, ConcClassifications)
ConcSpec == Init /\ [][ConcNext]_vars

DelegNext ==
    \/ SupervisorModel(DelegPlans)
    \/ \E i \in 1..MaxTools :
         \/ TaskTool(i)
         \/ SubAgentModel(i, MaxSearches)
         \/ TavilySearch(i)
         \/ Ls(i)
         \/ WriteFile(i)
DelegSpec == Init /\ [][DelegNext]_vars

\* The file agent of deep-agent/2_files.js: one agent with the file tools. What
\* its model may ask for: ls, write_file of any path with any content, and
\* read_file of any path.
FileAgentCalls ==
    {ToolCall("ls", Args("", ""))}
    \cup { ToolCall("write_file", Args(file_path, content)) :
             file_path \in {"user_request.txt", "notes.md", "__proto__"},
             content \in {"request", ""} }
    \cup { ToolCall("read_file", Args(file_path, "")) :
             file_path \in {"user_request.txt", "notes.md", "__proto__"} }
FileAgentPlans == Plans(FileAgentCalls, MaxTools - toolCalls(agMessages))

FilesNext ==
    \/ SupervisorModel(FileAgentPlans)
    \/ \E i \in 1..MaxTools : Ls(i)
    \/ \E i \in 1..MaxTools : WriteFile(i)
    \/ \E i \in 1..MaxTools : ReadFile(i)
FilesSpec == Init /\ [][FilesNext]_vars

\* tavily_search and write_file as functions of the file table: the calls are
\* applied one after the other, agMessages keeps what each call answered.
\* max_results is an argument of the call, so a response may hold several
\* results; two results may be pages of one host, and the last four digits of
\* Date.now() are the same for results saved within one millisecond.
ResultSets ==
    LET result == [domain : {"modelcontextprotocol.io", "example.com"},
                   timestamp : {"0417", "0418"}]
    IN { [throws |-> TRUE, results |-> <<>>] }
       \cup { [throws |-> FALSE, results |-> rs] : rs \in UNION { [1..n -> result] : n \in 0..2 } }

SearchCall ==
    /\ Len(agMessages) <= MaxHistory
    /\ \E response \in ResultSets :
         LET r == tavily_search(virtualFileSystem, "MCP", response)
         IN /\ virtualFileSystem' = r.fs
            /\ agMessages' = Append(agMessages, ToolMessage(r.result))
    /\ UNCHANGED <<agStatus, agError, tasks, ragVars, triVars, todoVars, replayVars, implVars>>

WriteCall ==
    /\ Len(agMessages) <= MaxHistory
    /\ \E file_path \in {"notes.md", "example_com_0417.md"} :
         LET w == write_file(virtualFileSystem, file_path, "notes")
         IN /\ virtualFileSystem' = w.fs
            /\ agMessages' = Append(agMessages, ToolMessage(w.result))
    /\ UNCHANGED <<agStatus, agError, tasks, ragVars, triVars, todoVars, replayVars, implVars>>

SearchNext == SearchCall \/ WriteCall
SearchSpec == Init /\ [][SearchNext]_vars

TodoSpec == Init /\ [][TodoNext]_vars
ReplaySpec == Init /\ [][ReplayNext]_vars
ImplSpec == Init /\ [][ImplNext]_vars

FanNext ==
    \/ SupervisorModel(FanPlans)
    \/ \E i \in 1..(max_concurrent_research_units + 1) :
         \/ TaskTool(i)
         \/ SubAgentModel(i, MaxSearches)
         \/ TavilySearch(i)
FanSpec == Init /\ [][FanNext]_vars

BudgetNext ==
    \/ SupervisorModel(BudgetPlans)
    \/ TaskTool(1)
    \/ SubAgentModel(1, max_search_tool_calls + 1)
    \/ TavilySearch(1)
BudgetSpec == Init /\ [][BudgetNext]_vars

(***************************************************************************)
(* Properties.                                                             *)
(***************************************************************************)
Visited(t, n) == \E i \in 1..Len(trace[t]) : trace[t][i] = n
Visits(t, n) == Cardinality({ i \in 1..Len(trace[t]) : trace[t][i] = n })
T1 == "example-thread-1"

\* The binaryScore values of the grading messages of a history, in order.
RECURSIVE verdicts(_)
verdicts(ms) ==
    IF ms = <<>> THEN <<>>
    ELSE (IF Head(ms).type = "ai" /\ Len(Head(ms).tool_calls) > 0
             /\ Head(ms).tool_calls[1].name = TOOL_GRADE
          THEN <<Head(ms).tool_calls[1].args>> ELSE <<>>) \o verdicts(Tail(ms))

\* n - 1 times 'no', then 'yes'.
NoThenYes(vs) ==
    /\ Len(vs) >= 1
    /\ vs[Len(vs)] = "yes"
    /\ \A i \in 1..(Len(vs) - 1) : vs[i] = "no"

RECURSIVE ExpectedTraversal(_)
ExpectedTraversal(n) ==
    IF n = 1 THEN <<"agent", "retrieve", "gradeRelevance", "generate">>
    ELSE <<"agent", "retrieve", "gradeRelevance", "transformQuery">> \o ExpectedTraversal(n - 1)

\* C1: once the verdicts of a retrieval run are n-1 times 'no' and then 'yes',
\* the nodes visited are (agent, retrieve, gradeRelevance, transformQuery) n-1
\* times, then agent, retrieve, gradeRelevance, with generate pending, and then
\* generate with the run completed at the terminal marker: 4n node visits, 12
\* for n = 3.
C1_Traversal ==
    NoThenYes(verdicts(messages))
    => LET n == Len(verdicts(messages))
           expected == ExpectedTraversal(n)
       IN \/ /\ ragTrace = SubSeq(expected, 1, 4 * n - 1)
             /\ ragNext = "generate"
             /\ ragStatus = "running"
          \/ /\ ragTrace = expected
             /\ Len(ragTrace) = 4 * n
             /\ ragNext = "__end__"
             /\ ragStatus = "completed"

C1_Witness ==
    /\ ragStatus = "completed"
    /\ verdicts(messages) = <<"no", "no", "yes">>
    /\ Len(ragTrace) = 12

\* C2: after the grading node, whenever the grading message carries a verdict,
\* the run has not failed and its next node is generate for 'yes' and
\* transformQuery for every other verdict.
C2_GradeRouting ==
    (ragTrace # <<>> /\ Last(ragTrace) = "gradeRelevance" /\ Len(score.tool_calls) > 0)
    => /\ ragStatus = "running"
       /\ ragNext = IF score.tool_calls[1].args = "yes" THEN "generate" ELSE "transformQuery"

HighStakes(c) == c.urgency = "high" \/ c.urgency = "critical" \/ c.intent = "complex"

\* C3: in a triage run classified urgent ('high', 'critical') or 'complex',
\* send_reply has run only if the run was suspended at human_review and resumed
\* with an approving decision; without a resume send_reply has not run.
C3_ReviewBeforeSend ==
    \A t \in Threads :
        ("classification" \in DOMAIN values[t] /\ HighStakes(values[t].classification)
            /\ Visited(t, "send_reply"))
        => /\ payload[t].action = "Review Draft"
           /\ Len(resumed[t]) > 0
           /\ resumed[t][1].approved
           /\ \E i, j, k \in 1..Len(trace[t]) :
                /\ i < j /\ j < k
                /\ trace[t][i] = "human_review" /\ trace[t][j] = "human_review"
                /\ trace[t][k] = "send_reply"

C3_Witness ==
    /\ "classification" \in DOMAIN values[T1]
    /\ values[T1].classification.urgency = "critical"
    /\ values[T1].classification.intent = "question"
    /\ Visited(T1, "send_reply")

\* The step of thread t in which human_review runs with the resume value.
ResumedReviewStep(t) ==
    /\ Len(resumed[t]) > 0
    /\ "human_review" \in next[t] /\ status[t] = "running"
    /\ trace'[t] = Append(trace[t], "human_review")

\* C4: the step of human_review that runs with resume value V: if V.approved, the
\* next node is send_reply and draftResponse is V.editedResponse when that is not
\* empty and the draft otherwise, no other channel changed; if not, the run is
\* completed with no node pending and no channel changed. After a rejecting V
\* send_reply never ran.
C4_ResumeValue ==
    /\ [][\A t \in Threads : ResumedReviewStep(t) =>
            LET V == Last(resumed[t]) IN
            IF V.approved
            THEN /\ next'[t] = {"send_reply"}
                 /\ status'[t] = "running"
                 /\ values'[t] = [values[t] EXCEPT !.draftResponse =
                        IF V.editedResponse # "" THEN V.editedResponse ELSE payload[t].draft]
            ELSE /\ next'[t] = {}
                 /\ status'[t] = "completed"
                 /\ values'[t] = values[t]]_vars
    /\ [](\A t \in Threads :
            (Len(resumed[t]) > 0 /\ ~resumed[t][1].approved) => ~Visited(t, "send_reply"))

C4_Witness ==
    /\ Len(resumed[T1]) > 0
    /\ resumed[T1][1] = [approved |-> TRUE, editedResponse |-> ""]
    /\ payload[T1].draft = "draft"
    /\ values[T1].draftResponse = "draft"
    /\ Visited(T1, "send_reply")

\* One suspend and one resume of thread t are over.
ReviewOver(t) == Len(resumed[t]) = 1 /\ Visits(t, "human_review") = 2

\* C5 as stated: over one suspend followed by one resume, the steps of
\* human_review before the suspension point ran exactly once.
C5_PrefixOnce == \A t \in Threads : ReviewOver(t) => reviewLog[t] = 1

\* C5 as amended: resume enters human_review again at its start: over one suspend
\* followed by one resume the steps before the suspension point ran twice, once
\* per entry of the node, and the first entry changed no channel.
C5_PrefixPerEntry ==
    \A t \in Threads :
        /\ reviewLog[t] = Visits(t, "human_review")
        /\ ReviewOver(t) => reviewLog[t] = 2
        /\ status[t] = "interrupted" =>
              /\ reviewLog[t] = 1
              /\ values[t] = memory[t].values
              /\ values[t].draftResponse = payload[t].draft

C5_Witness == ReviewOver(T1) /\ status[T1] = "completed"

\* C6: a run interrupted at human_review and resumed with V ends with the
\* draftResponse, and with send_reply run or not, of the review step that gets
\* V in place (inlineReview) from the snapshot the run was suspended with.
C6_Transparency ==
    \A t \in Threads :
        (status[t] = "completed" /\ Len(resumed[t]) = 1)
        => LET before == applyUpdate(values[t], [draftResponse |-> payload[t].draft])
               sync == inlineReview(before, resumed[t][1])
           IN /\ values[t].draftResponse = sync.state.draftResponse
              /\ Visited(t, "send_reply") = sync.sent

C8_CheckpointEveryStep ==
    \A t \in Threads :
        /\ status[t] # "idle" =>
              /\ memory[t].next = next[t]
              /\ memory[t].values = values[t]
        /\ status[t] = "interrupted" =>
              /\ memory[t].next = {"human_review"}
              /\ memory[t].interrupt = payload[t]
              /\ memory[t].values.draftResponse = payload[t].draft

C8_Witness ==
    /\ status[T1] = "interrupted"
    /\ memory[T1].next = {"human_review"}
    /\ memory[T1].values.draftResponse = "draft"

\* Everything the model holds for thread t.
ThreadState(t) ==
    <<values[t], next[t], done[t], writes[t], goto[t], status[t], memory[t],
      mainPc[t], trace[t], reviewLog[t], resumed[t], payload[t]>>

\* C9: a step of one thread leaves everything of every other thread as it was
\* (its snapshot, its checkpoint, its cursor), and a thread that is running can
\* take its step whatever the other threads do, also while one is suspended.
C9_ThreadIsolation ==
    /\ [][\A t \in Threads : ThreadStep(t, ConcClassifications) =>
            \A u \in Threads \ {t} : ThreadState(u)' = ThreadState(u)]_vars
    /\ [](\A t \in Threads :
            (status[t] = "running" /\ next[t] # {}) => ENABLED ThreadStep(t, ConcClassifications))

C9_Witness ==
    /\ status["example-thread-1"] = "interrupted"
    /\ status["example-thread-2"] = "completed"
    /\ Visited("example-thread-2", "send_reply")

\* C10: no run executed both bug_tracking and search_documentation, and no
\* completed run holds both a ticketId and searchResults.
C10_OneBranch ==
    \A t \in Threads :
        /\ ~(Visited(t, "bug_tracking") /\ Visited(t, "search_documentation"))
        /\ status[t] = "completed" =>
              ~("ticketId" \in DOMAIN values[t] /\ "searchResults" \in DOMAIN values[t])

\* C11: the nodes of one triage run execute one after the other: in every state
\* at most one node of the run is pending or executing, and no node starts while
\* the update of a node that ran before it is still waiting to be applied (every
\* step starts from the snapshot the single step before it produced).
C11_Sequential ==
    \A t \in Threads :
        /\ Cardinality(next[t]) <= 1
        /\ done[t] = {}
        /\ writes[t] = NoUpdate

\* C18: the grading cycle is capped: a run whose history holds MaxGrades grading
\* attempts is at the terminal marker, failed, or on its way to the answer; it
\* is not sent around the rewrite cycle once more.
C18_RetryCap ==
    gradeCount(messages) >= MaxGrades
    => \/ ragStatus \in {"completed", "failed"}
       \/ ragNext = NODE_GENERATE

\* C19: after the agent node the next node is retrieve exactly when the last
\* message of the history is a model message with at least one tool call; in
\* every other case the run is completed at the terminal marker.
C19_AgentDecision ==
    (ragTrace # <<>> /\ Last(ragTrace) = "agent")
    => LET m == messages[Len(messages)]
       IN IF m.type = "ai" /\ Len(m.tool_calls) >= 1
          THEN ragNext = "retrieve" /\ ragStatus = "running"
          ELSE ragNext = "__end__" /\ ragStatus = "completed"

C19_Witness ==
    /\ ragTrace = <<"agent", "retrieve", "gradeRelevance", "transformQuery", "agent">>
    /\ Len(messages[Len(messages)].tool_calls) = 0
    /\ ragStatus = "completed"

\* C20: once the grading model answered with a message that carries no tool
\* call (or that is no model message), the run has failed with MissingToolCall,
\* the grading node is the last node that executed (neither generate nor
\* transformQuery ran after it) and the history still ends with the retrieved
\* documents: nothing was appended.
C20_MissingToolCall ==
    (score.content.k = "score" /\ (score.type # "ai" \/ Len(score.tool_calls) = 0))
    => /\ ragStatus = "failed"
       /\ ragError = "MissingToolCall"
       /\ ragTrace[Len(ragTrace)] = "gradeRelevance"
       /\ ragNext = "gradeRelevance"
       /\ messages[Len(messages)].type = "tool"
       /\ Len(verdicts(messages)) = Cardinality({ i \in 1..Len(ragTrace) : ragTrace[i] = "gradeRelevance" }) - 1

C20_Witness ==
    /\ ragVariant = 2
    /\ ragError = "MissingToolCall"
    /\ ragStatus = "failed"
    /\ verdicts(messages) = <<"no">>
    /\ Len(score.tool_calls) = 0

\* The sub-agent types the registry holds.
RegisteredTypes == { subagents[k].name : k \in 1..Len(subagents) }

Count(ms, type) == Cardinality({ k \in 1..Len(ms) : ms[k].type = type })

\* C12: whatever the length of the supervisor's history and whatever the file
\* table holds, the history of a delegated run begins with the one entry it was
\* started with, the task description; every other entry is an answer of the
\* sub-agent's model or a result of its tools; its file map is empty, and no
\* message of the supervisor's history is in it.
C12_Isolation ==
    \A i \in 1..Len(tasks) :
        tasks[i].phase = "running"
        => LET run == tasks[i].run
           IN /\ Len(run.messages) >= 1
              /\ run.messages[1] = HumanMessage(Text(tasks[i].call.args.a))
              /\ Count(run.messages, "human") = 1
              /\ Len(run.messages) = 1 + Count(run.messages, "ai") + Count(run.messages, "tool")
              /\ Count(run.messages, "ai") - Count(run.messages, "tool") \in {0, 1}
              /\ run.files = <<>>
              /\ \A k \in 1..Len(run.messages), p \in 1..Len(agMessages) :
                    run.messages[k] # agMessages[p]

C12_Witness ==
    /\ Len(agMessages) >= 4
    /\ virtualFileSystem # <<>>
    /\ \E i \in 1..Len(tasks) :
         /\ tasks[i].phase = "running"
         /\ tasks[i].run = [messages |-> <<HumanMessage(Text("Research the Model Context Protocol"))>>,
                            files |-> <<>>]

\* The tool calls of the given name that a history asked for.
callsOf(ms, name) ==
    { ms[pk[1]].tool_calls[pk[2]] :
        pk \in { qk \in (1..Len(ms)) \X (1..MaxTools) :
                   /\ qk[2] <= Len(ms[qk[1]].tool_calls)
                   /\ ms[qk[1]].tool_calls[qk[2]].name = name } }

\* The file names the write_file calls of a history name.
ownFiles(ms) == { c.args.a : c \in callsOf(ms, "write_file") }

\* The file names the ls results of a history list.
observedFiles(ms) ==
    UNION { { ms[p].content.i[k] : k \in 1..Len(ms[p].content.i) } :
              p \in { q \in 1..Len(ms) : ms[q].type = "tool" /\ ms[q].content.k = "ls" } }

\* C13: nothing a sub-agent wrote is observable by the supervisor: every file
\* name an ls of the supervisor lists was written by a write_file call of the
\* supervisor itself, and once the delegations of a message have settled the
\* file table holds no entry of another writer.
C13_Discarded ==
    /\ observedFiles(agMessages) \subseteq ownFiles(agMessages)
    /\ tasks = <<>> =>
          { virtualFileSystem[k].name : k \in 1..Len(virtualFileSystem) }
              \subseteq ownFiles(agMessages)

\* The ToolMessage that answers call k of the message at position p.
Answer(ms, p, k) == ms[p + k]

\* The message at p asked for tool calls and its tools step is over.
Answered(ms, p) == Len(ms[p].tool_calls) > 0 /\ p < Len(ms)

C15_ActiveBound ==
    Cardinality({ i \in 1..Len(tasks) : tasks[i].phase = "running" })
        <= max_concurrent_research_units

\* The text a failed sub-agent run leaves as the result of its delegation.
FailureText == Content("ExternalServiceFailure", <<"task">>, "Please fix your mistakes.")

dispatched ==
    Cardinality({ p \in 1..Len(agMessages) : agMessages[p].type = "tool" })
    + Cardinality({ i \in 1..Len(tasks) : tasks[i].phase = "running" })

\* C17: the calls a run dispatches stay within its budget: a sub-agent run
\* makes at most max_search_tool_calls searches and the supervising run at most
\* max_researcher_iterations delegations.
C17_BudgetGuard ==
    /\ \A i \in 1..Len(tasks) :
         searchCalls(tasks[i].run.messages) <= max_search_tool_calls
    /\ dispatched <= max_researcher_iterations

\* The most recent tool-result entry of a history, 0 when there is none.
NewestTool(ms) ==
    IF \A k \in 1..Len(ms) : ms[k].type # "tool" THEN 0
    ELSE CHOOSE k \in 1..Len(ms) :
            ms[k].type = "tool" /\ \A n \in (k + 1)..Len(ms) : ms[n].type # "tool"

\* C21: a step of generate on a history without tool-result entry fails with
\* MissingContext and leaves the history as it was; on a history with such an
\* entry it appends the one answer made from messages[0] and from the content
\* of the most recent tool-result entry, and the run is completed.
C21_Generate ==
    [][(ragStatus = "running" /\ ragNext = "generate"
            /\ ragTrace' = Append(ragTrace, "generate"))
       => IF NewestTool(messages) = 0
          THEN /\ ragStatus' = "failed"
               /\ ragError' = "MissingContext"
               /\ messages' = messages
          ELSE /\ messages' = Append(messages,
                     AIMessage(<<>>, Content("answer", messages[1].content.i,
                                             messages[NewestTool(messages)].content.i)))
               /\ ragStatus' = "completed"
               /\ ragNext' = "__end__"]_vars

C21_Witness ==
    /\ ragTrace = <<"generate">>
    /\ ragStatus = "completed"
    /\ Len(messages) = 4
    /\ messages[2].type = "tool" /\ messages[3].type = "tool"
    /\ messages[2].content.i # messages[3].content.i
    /\ messages[4].content.j = messages[3].content.i

\* C22: the history before a step of a retrieval run is a prefix of the history
\* after it, and a step of agent, gradeRelevance, transformQuery or generate
\* that does not fail makes it exactly one entry longer (a failing step leaves
\* it as it was).
C22_AppendOnly ==
    [][/\ Len(messages') >= Len(messages)
       /\ SubSeq(messages', 1, Len(messages)) = messages
       /\ (ragTrace' # ragTrace /\ ragTrace'[Len(ragTrace')] # "retrieve")
          => IF ragStatus' = "failed"
             THEN messages' = messages
             ELSE Len(messages') = Len(messages) + 1]_vars

C22_Witness ==
    /\ ragStatus = "completed"
    /\ ragTrace = <<"agent", "retrieve", "gradeRelevance", "transformQuery",
                    "agent", "retrieve", "gradeRelevance", "generate">>
    /\ messages[2] = messages[6]
    /\ Len(messages) = 9

\* A message that carries a call of the grading tool.
GradingArtifact(m) ==
    m.type = "ai" /\ \E k \in 1..Len(m.tool_calls) : m.tool_calls[k].name = "give_relevance_score"

NoGradingArtifact(m) == ~GradingArtifact(m)

\* C23: the history the agent model is given is the history of the run at that
\* moment without the messages that carry a call of the grading tool, every
\* other message present and in its order.
C23_NoGradingArtifact ==
    (ragTrace # <<>> /\ ragTrace[Len(ragTrace)] = "agent")
    => agentInput = SelectSeq(SubSeq(messages, 1, Len(messages) - 1), NoGradingArtifact)

C23_Witness ==
    /\ ragTrace # <<>> /\ ragTrace[Len(ragTrace)] = "agent"
    /\ Len(agentInput) = 4
    /\ Len(messages) = 6
    /\ GradingArtifact(messages[4])

\* C24: the step of write_response leads to human_review exactly when the
\* classification has urgency 'high' or 'critical' or intent 'complex', and to
\* send_reply otherwise; it sets draftResponse to the drafted text and leaves
\* every other channel as it was.
C24_RoutingCommand ==
    [][\A t \in Threads :
          (status[t] = "running" /\ "write_response" \in next[t]
              /\ trace'[t] = Append(trace[t], "write_response"))
          => /\ next'[t] = {IF HighStakes(values[t].classification)
                            THEN "human_review" ELSE "send_reply"}
             /\ status'[t] = "running"
             /\ DOMAIN values'[t] = DOMAIN values[t] \cup {"draftResponse"}
             /\ values'[t].draftResponse \in Drafts
             /\ \A c \in DOMAIN values[t] \ {"draftResponse"} : values'[t][c] = values[t][c]]_vars

C24_Witness ==
    /\ trace[T1] # <<>>
    /\ trace[T1][Len(trace[T1])] = "write_response"
    /\ next[T1] = {"send_reply"}
    /\ values[T1].draftResponse = "draft"
    /\ values[T1].classification.urgency = "medium"

\* The decision the router of the grading node returns for the last grading
\* message: the binaryScore as it is (first version), 'yes' or 'no' (second).
RouterDecision ==
    IF ragVariant = 1 THEN score.tool_calls[1].args
    ELSE IF score.tool_calls[1].args = "yes" THEN "yes" ELSE "no"

\* C25: when the router of the grading node returns a decision that is neither
\* of the two entries of the mapping, the run has failed with UnmappedDecision:
\* the grading node is the last node that executed, the cursor did not move,
\* and the node was not run again.
C25_UnmappedDecision ==
    /\ (ragTrace # <<>> /\ ragTrace[Len(ragTrace)] = "gradeRelevance"
          /\ Len(score.tool_calls) > 0 /\ RouterDecision \notin {"yes", "no"})
       => /\ ragStatus = "failed"
          /\ ragError = "UnmappedDecision"
    /\ ragError = "UnmappedDecision"
       => /\ ragStatus = "failed"
          /\ RouterDecision \notin {"yes", "no"}
          /\ ragTrace[Len(ragTrace)] = "gradeRelevance"
          /\ ragNext = "gradeRelevance"
          /\ Cardinality({ i \in 1..Len(ragTrace) : ragTrace[i] = "gradeRelevance" })
                = Len(verdicts(messages)) + 1

C25_Witness ==
    /\ ragVariant = 1
    /\ ragError = "UnmappedDecision"
    /\ ragStatus = "failed"
    /\ score.tool_calls[1].args = "maybe"
    /\ verdicts(messages) = <<"no">>

\* C30: in a run that starts from the question alone, generate is pending or
\* has run only after retrieve has run and the history holds a tool-result
\* entry; no run fails with MissingContext.
C30_GenerateAfterRetrieve ==
    /\ ragError # "MissingContext"
    /\ (ragNext = "generate" \/ \E i \in 1..Len(ragTrace) : ragTrace[i] = "generate")
       => /\ \E i \in 1..Len(ragTrace) : ragTrace[i] = "retrieve"
          /\ NewestTool(messages) # 0

C30_Witness ==
    /\ ragStatus = "completed"
    /\ ragTrace = <<"agent", "retrieve", "gradeRelevance", "generate">>
    /\ messages[1] = inputs[1]
    /\ NewestTool(messages) = 3

\* The paths of the write_file calls that have run: those of the tools steps
\* that are over and those settled in the step under way.
WrittenPaths ==
    UNION { { agMessages[m].tool_calls[k].args.a :
                k \in { n \in 1..Len(agMessages[m].tool_calls) :
                          agMessages[m].tool_calls[n].name = "write_file" } } :
            m \in { n \in 1..Len(agMessages) : tasks = <<>> \/ n < Len(agMessages) } }
    \cup { tasks[i].call.args.a :
             i \in { n \in 1..Len(tasks) : tasks[n].phase = "settled"
                                            /\ tasks[n].call.name = "write_file" } }

\* C28: a write_file call makes the table map its path to its content and
\* leaves the entry of every other path as it was, and the paths ls lists are
\* exactly the paths that have been written.
C28_WholeValueOverwrite ==
    [][/\ \A i \in 1..Len(tasks) :
            (Requested(i, "write_file") /\ (tasks' = <<>> \/ tasks'[i].phase = "settled"))
            => LET file_path == tasks[i].call.args.a
                   content == tasks[i].call.args.b
                   fs == virtualFileSystem
               IN /\ \E k \in 1..Len(fs') :
                        fs'[k] = [name |-> file_path, content |-> content]
                  /\ \A k, n \in 1..Len(fs') : fs'[k].name = fs'[n].name => k = n
                  /\ { fs'[k] : k \in { n \in 1..Len(fs') : fs'[n].name # file_path } }
                        = { fs[k] : k \in { n \in 1..Len(fs) : fs[n].name # file_path } }
       /\ { keys(virtualFileSystem')[k] : k \in 1..Len(virtualFileSystem') } = WrittenPaths'
      ]_vars

T2 == "example-thread-2"

\* The nodes that run in one superstep with n: n and the other targets of an
\* edge fan-out that leads to n.
Superstep(n) == {n} \cup { m \in Nodes : \E p \in Nodes : n \in edges(p) /\ m \in edges(p) }

\* The traversal of a run: its nodes in the order they ran, the nodes of one
\* superstep (which run concurrently) standing for the same entry.
Traversal(t) == [k \in 1..Len(trace[t]) |-> Superstep(trace[t][k])]

AtRest(t) == status[t] \in {"interrupted", "completed"}

C29_DependenciesMet ==
    todoPc = "await" => \A depId \in task.dependencies : depId \in completedTasks

C29_Witness ==
    /\ todoPc = "await"
    /\ task = [id |-> 2, dependencies |-> {1}]
    /\ completedTasks = {1}
    /\ console[2] = Line("[IN PROGRESS] Task", 1)

RetrievedAfter(k) ==
    /\ messages[k].type = "ai" /\ Len(messages[k].tool_calls) > 0
    /\ \A n \in 1..Len(messages[k].tool_calls) :
          messages[k].tool_calls[n].name = "retrieve_blog_posts"
    /\ Len(messages) = k + Len(messages[k].tool_calls)
    /\ \A n \in 1..Len(messages[k].tool_calls) :
          /\ messages[k + n].type = "tool"
          /\ messages[k + n].content.i = messages[k].tool_calls[n].args

\* C31: whenever the grading node is the node to run, retrieve is the node that
\* ran last and the last entry of the history is a tool-result entry that
\* retrieve step appended; the verdict of a grading step is made over the
\* content of that entry.
C31_GradeLatestRetrieval ==
    [][(ragStatus' = "running" /\ ragNext' = "gradeRelevance"
          => /\ ragTrace'[Len(ragTrace')] = "retrieve"
             /\ messages'[Len(messages')].type = "tool"
             /\ Len(messages') > Len(messages)
             /\ \E k \in 1..Len(messages') : RetrievedAfter(k)')
       /\ (ragTrace' = Append(ragTrace, "gradeRelevance")
          => /\ messages[Len(messages)].type = "tool"
             /\ score'.content.i = messages[Len(messages)].content.i)]_vars

C31_Witness ==
    /\ ragStatus = "running" /\ ragNext = "gradeRelevance"
    /\ Len(verdicts(messages)) = 1
    /\ Len(messages) = 7
    /\ messages[3].type = "tool" /\ messages[7].type = "tool"
    /\ messages[3].content.i # messages[7].content.i

\* C32: the first entry of the history is the question of the run in every
\* state, and a step of transformQuery appends the rewritten question, made
\* from that first entry, behind the entries the history had.
C32_QuestionStays ==
    [][/\ messages'[1] = inputs[1]
       /\ ragTrace' = Append(ragTrace, "transformQuery")
          => /\ Len(messages') = Len(messages) + 1
             /\ SubSeq(messages', 1, Len(messages)) = messages
             /\ messages'[Len(messages')].type = "ai"
             /\ messages'[Len(messages')].content
                   = Content("rewrite", inputs[1].content.i, 0)]_vars

C32_Witness ==
    /\ Cardinality({ k \in 1..Len(ragTrace) : ragTrace[k] = "transformQuery" }) = 2
    /\ ragStatus = "completed"
    /\ ragTrace[Len(ragTrace)] = "generate"
    /\ messages[1] = inputs[1]
    /\ messages[Len(messages)].content.i = messages[1].content.i

\* C33: in a run of the triage graph write_response runs at most once and only
\* after search_documentation and bug_tracking, whichever of the two ran first;
\* send_reply runs at most once; a run at rest has run write_response once.
C33_WriteOnce ==
    \A t \in Threads :
        /\ Visits(t, "write_response") <= 1
        /\ Visits(t, "send_reply") <= 1
        /\ AtRest(t) => Visits(t, "write_response") = 1
        /\ Visited(t, "write_response")
           => Visited(t, "search_documentation") /\ Visited(t, "bug_tracking")

C33_Witness ==
    /\ status[T1] = "completed"
    /\ \E k \in 1..Len(trace[T1]) :
          /\ trace[T1][k] = "bug_tracking"
          /\ trace[T1][k + 1] = "search_documentation"
          /\ trace[T1][k + 2] = "write_response"
    /\ Visits(T1, "write_response") = 1
    /\ Visits(T1, "send_reply") = 1

\* runEmailWorkflow on the input of thread t with the responses the graph run
\* of t was given: its final state and the steps it executed.
inlineRun(t) ==
    LET draft == IF resumed[t] # <<>> THEN payload[t].draft ELSE values[t].draftResponse
        routed == inlineRoute(applyUpdate(initialState(t),
                                 [classification |-> values[t].classification]),
                              values[t].ticketId)
        drafted == applyUpdate(routed, [draftResponse |-> draft])
        review == HighStakes(values[t].classification)
        final == IF review THEN inlineReview(drafted, resumed[t][1])
                 ELSE [state |-> drafted, sent |-> TRUE]
    IN [state |-> final.state,
        steps |-> <<"read_email", "classify_intent",
                    IF values[t].classification.intent = "bug"
                    THEN "bug_tracking" ELSE "search_documentation",
                    "write_response">>
                  \o (IF review THEN <<"human_review">> ELSE <<>>)
                  \o (IF final.sent THEN <<"send_reply">> ELSE <<>>)]

\* The steps of the graph run of t, the two entries of human_review (suspension
\* and resumption) counted as one step.
graphSteps(t) ==
    SelectSeq([k \in 1..Len(trace[t]) |->
                  IF k > 1 /\ trace[t][k] = "human_review" /\ trace[t][k - 1] = "human_review"
                  THEN "" ELSE trace[t][k]],
              LAMBDA n : n # "")

Present(state, c) == IF c \in DOMAIN state THEN <<state[c]>> ELSE <<>>

\* C34: a completed run of the graph has executed the steps of the inline
\* workflow for the same email, classification and decision, in the same order,
\* and ends with the same ticketId presence, searchResults and draftResponse.
C34_InlineEquivalence ==
    \A t \in Threads :
        (status[t] = "completed"
           /\ (HighStakes(values[t].classification) => Len(resumed[t]) = 1))
        => /\ graphSteps(t) = inlineRun(t).steps
           /\ ("ticketId" \in DOMAIN values[t]) = ("ticketId" \in DOMAIN inlineRun(t).state)
           /\ Present(values[t], "searchResults") = Present(inlineRun(t).state, "searchResults")
           /\ values[t].draftResponse = inlineRun(t).state.draftResponse

\* The content of the ToolMessage of tool call i, after the step that settled it.
Answer_(i) ==
    IF tasks' = <<>> THEN agMessages'[Len(agMessages) + i].content ELSE tasks'[i].result

\* C35: read_file of a path whose entry holds the empty content answers that
\* the file exists but has empty contents, and it answers 'not found' only for
\* a path that was never written.
C35_EmptyFileExists ==
    [][\A i \in 1..Len(tasks) :
          (Requested(i, "read_file") /\ agStatus' = "running"
              /\ (tasks' = <<>> \/ tasks'[i].phase = "settled"))
          => LET file_path == tasks[i].call.args.a
             IN /\ [name |-> file_path, content |-> ""]
                       \in { virtualFileSystem[k] : k \in 1..Len(virtualFileSystem) }
                   => Answer_(i).k = "System reminder: File exists but has empty contents"
                /\ Answer_(i).k = "Error: File not found"
                   => file_path \notin WrittenPaths]_vars

\* C36: after a tavily_search call that reports N results the file table holds
\* N more entries than before, one under each reported file name: the reported
\* names differ from each other and from every name the table held, and every
\* entry the table held is as it was.
C36_OwnFileName ==
    [][(agMessages' # agMessages
          /\ agMessages'[Len(agMessages')].content.k = "Found result(s). Files saved")
       => LET filenames == agMessages'[Len(agMessages')].content.i
              fs == virtualFileSystem
          IN /\ \A k, n \in 1..Len(filenames) : filenames[k] = filenames[n] => k = n
             /\ \A k \in 1..Len(filenames) : \A n \in 1..Len(fs) : fs[n].name # filenames[k]
             /\ Len(fs') = Len(fs) + Len(filenames)
             /\ \A n \in 1..Len(fs) : fs'[n] = fs[n]]_vars

\* The tasks of a list (by their place) that can be completed: the least set
\* that holds every task whose dependencies are ids of tasks of the set.
RECURSIVE CompletableWithin(_, _, _)
CompletableWithin(list, S, n) ==
    IF n = 0 THEN S
    ELSE CompletableWithin(list,
            { k \in 1..Len(list) : list[k].dependencies \subseteq { list[j].id : j \in S } },
            n - 1)
Completable(list) == CompletableWithin(list, {}, Len(list))

\* The tasks a task depends on, and those it depends on through others.
DependsOn(list, k) == { j \in 1..Len(list) : list[j].id \in list[k].dependencies }
RECURSIVE DependsOnWithin(_, _, _)
DependsOnWithin(list, S, n) ==
    IF n = 0 THEN S
    ELSE DependsOnWithin(list, S \cup UNION { DependsOn(list, j) : j \in S }, n - 1)
Acyclic(list) ==
    \A k \in 1..Len(list) : k \notin DependsOnWithin(list, DependsOn(list, k), Len(list))
AllNamed(list) ==
    \A k \in 1..Len(list) : list[k].dependencies \subseteq { list[j].id : j \in 1..Len(list) }
DistinctIds(list) == \A k, j \in 1..Len(list) : list[k].id = list[j].id => k = j

Logged(text) == Cardinality({ k \in 1..Len(console) : console[k].text = text })

\* C37 as stated: a run that stopped has completed every task of the list
\* exactly when the dependencies are acyclic and every dependency id names a
\* task of the list.
C37_AllIffAcyclic ==
    todoPc = "returned"
    => (taskQueue = <<>> <=> Acyclic(todoTasks) /\ AllNamed(todoTasks))

\* C37, amended: every step of the loop ends the run or takes one task from
\* the queue, so a run on n tasks stops after at most n of them; every task is
\* queued, in progress or completed once; when the run stops, the tasks left
\* in the queue are those that cannot be completed and the completed ids are
\* those of the tasks that can; for a list with pairwise distinct ids that is
\* every task exactly when the dependencies are acyclic and all name a task.
C37_TerminatesAtFixpoint ==
    [][/\ todoPc = "await"
          => \/ todoPc' = "returned" /\ taskQueue' = taskQueue
             \/ todoPc' = "await" /\ Len(taskQueue') = Len(taskQueue) - 1
       /\ todoPc' # "idle"
          => /\ Logged("[COMPLETED]   Task")' + Len(taskQueue')
                   + (IF todoPc' = "await" THEN 1 ELSE 0) = Len(todoTasks')
             /\ Logged("[IN PROGRESS] Task")' + Len(taskQueue') = Len(todoTasks')
       /\ todoPc' = "returned"
          => /\ taskQueue' = SelectSeq(todoTasks', LAMBDA t : t \in
                    { todoTasks'[k] : k \in (1..Len(todoTasks')) \ Completable(todoTasks') })
             /\ \A k \in Completable(todoTasks') :
                   todoTasks'[k] \notin { taskQueue'[j] : j \in 1..Len(taskQueue') }
             /\ completedTasks' = { todoTasks'[k].id : k \in Completable(todoTasks') }
             /\ DistinctIds(todoTasks')
                => (taskQueue' = <<>> <=> Acyclic(todoTasks') /\ AllNamed(todoTasks'))]_vars

C37_Witness ==
    /\ todoPc = "returned"
    /\ todoTasks = <<[id |-> 2, dependencies |-> {2}], [id |-> 1, dependencies |-> {}]>>
    /\ completedTasks = {1}
    /\ taskQueue = <<[id |-> 2, dependencies |-> {2}]>>

\* C38: a run that stopped reports success only when every task of the list
\* was completed, and not when it reported a circular or missing dependency.
C38_SuccessOnlyWhenAllDone ==
    (todoPc = "returned" /\ Logged("All tasks have been successfully implemented!") > 0)
    => /\ taskQueue = <<>>
       /\ Logged("Simulation Error: Circular dependency or missing dependency detected.") = 0

\* Two requests overlap when one arrived while the other was being served.
Overlap(r1, r2) == r1 \in req[r2].seen \/ r2 \in req[r1].seen
\* The stored list records the task of request r as completed with r's result.
Recorded(r) ==
    \E k \in 1..Len(tasksFile.tasks) :
        /\ tasksFile.tasks[k].id = req[r].taskId
        /\ tasksFile.tasks[k].status = "completed"
        /\ tasksFile.tasks[k].result = req[r].response.taskResult
Succeeded(r) == req[r].pc = "done" /\ req[r].response.success /\ req[r].gen = generations

\* C39: when two /implement-task requests for two distinct tasks of the stored
\* list overlap and both answer success, the stored list records both tasks as
\* completed, each with its own result.
C39_NoLostUpdate ==
    \A r1, r2 \in Requests :
        (/\ r1 # r2 /\ Succeeded(r1) /\ Succeeded(r2)
         /\ req[r1].taskId # req[r2].taskId
         /\ Overlap(r1, r2))
        => Recorded(r1) /\ Recorded(r2)

\* The step in which request r sends its response.
Responds(r) == req[r].pc # "done" /\ req'[r].pc = "done"
\* The list request r looked its task up in (the stored one, if it never read).
Named(r) ==
    LET list == IF req[r].pc = "writeFile" THEN req[r].tasks
                ELSE IF tasksFile.exists THEN tasksFile.tasks ELSE <<>>
    IN \E k \in 1..Len(list) : list[k].id = req'[r].taskId
\* No other request was being served at any time request r was.
Isolated(r) == req[r].seen = {} /\ \A q \in Requests \ {r} : r \notin req[q].seen

\* C40: a request answers with an error, leaving the stored list as it was,
\* exactly when its taskId names no task of the list; otherwise it marks that
\* task completed and changes no other task.
C40_ErrorIffNoSuchTask ==
    [][\A r \in Requests : Responds(r) =>
          /\ req'[r].response.success <=> Named(r)
          /\ ~req'[r].response.success => tasksFile' = tasksFile
          /\ (req'[r].response.success /\ Isolated(r) /\ req[r].gen = generations)
             => /\ Len(tasksFile'.tasks) = Len(tasksFile.tasks)
                /\ \A k \in 1..Len(tasksFile.tasks) :
                      IF k = req[r].taskToComplete
                      THEN /\ tasksFile'.tasks[k].id = req'[r].taskId
                           /\ tasksFile'.tasks[k].status = "completed"
                      ELSE tasksFile'.tasks[k] = tasksFile.tasks[k]]_vars
====
